---- MODULE Spec2Model ----
(***************************************************************************)
(* Verification model of the mini-openclaw backend.                        *)
(*                                                                         *)
(*   SpecPolicy  tools/policy.py      ToolPolicyEngine.is_allowed          *)
(*   SpecTools   tools/runner.py      ToolRunner.run_tool                  *)
(*   SpecUsage   graph/agent.py       usage accumulation                   *)
(*   SpecChat    api/chat.py, graph/agent.py (astream),                    *)
(*               graph/session_manager.py                                  *)
(*   SpecCron       scheduler/cron.py, api/scheduler_api.py                *)
(*   SpecLifecycle  start(), stop() and the task of both schedulers        *)
(*   SpecHeartbeat  scheduler/heartbeat.py, _tick_once                     *)
(*   SpecPathGuard  tools/path_guard.py                                    *)
(*   SpecIndex      graph/memory_indexer.py, graph/retrieval_store.py       *)
(*   SpecAgent      graph/agent.py (get_runtime), config.py,                *)
(*                  api/config_api.py                                       *)
(*   SpecRunJob     scheduler/cron.py, _run_job on one job                  *)
(*   SpecSession    graph/session_manager.py, the handlers writing one      *)
(*                  session                                                 *)
(*                                                                         *)
(* Every specification keeps the variables of the other parts at their     *)
(* idle values.                                                            *)
(***************************************************************************)
EXTENDS Integers, Sequences, FiniteSets, TLC

VARIABLES
    \* ---- tools/policy.py
    pol_in,                  \* arguments of one is_allowed call
    pol_out,                 \* its PolicyDecision, or NoDecision before the call
    \* ---- tools/runner.py
    repeat_identical_failure_limit,   \* ToolRunner.repeat_identical_failure_limit
    repeat_failure_counts,            \* ToolRunner._repeat_failure_counts
    audit_tail,              \* audit lines written by the latest run_tool call
    calls,                   \* per failure key, the outcomes of the run_tool calls so far
    ncalls,                  \* number of run_tool calls so far
    \* ---- graph/agent.py, usage accumulation
    usage_state,             \* running totals and identity of the turn
    usage_sources,           \* per source key, the largest values accounted so far
    usage_observed,          \* per source key, the largest value of each field ever passed in
    usage_last,              \* the latest accumulate call and what it returned
    naccum,                  \* number of accumulate calls so far
    \* ---- api/chat.py, graph/agent.py (astream), graph/session_manager.py
    max_retries,             \* agent_runtime.max_retries of the effective config
    runs,                    \* every _StreamRunState created, with its task and generator
    active_run,              \* _active_runs[key]: index into runs, 0 when the key is absent
    subs,                    \* subscriber queues and the clients reading them
    sess_messages,           \* session["messages"]
    sess_live,               \* session["live_response"]
    sess_title,              \* session["title"]
    nonstream,               \* stream=false requests waiting for run_once
    reqlog,                  \* the chat requests received and what each was answered
    \* ---- scheduler/cron.py, api/scheduler_api.py
    cron_cfg,                \* cron.max_failures, and whether API requests share the
                             \* background task's CronScheduler
    cron_jobs,               \* storage/cron_jobs.json
    cron_runs,               \* rows of storage/cron_runs.jsonl
    cron_failures,           \* rows of storage/cron_failures.jsonl
    cron_now,                \* time.time()
    cron_lock,               \* holder of the background scheduler's _async_lock
    cron_tick,               \* the tick_once call in progress, or the last one
    cron_reqs,               \* run_job_now calls awaiting run_once
    cron_fired,              \* per job, outcomes of its executions by tick_once
    cron_used,               \* job ids create_job has handed out
    cron_calls,              \* requests to the cron endpoints so far
    \* ---- scheduler/cron.py, scheduler/heartbeat.py: the background task
    sched_enabled,           \* config.enabled
    sched_task,              \* _task: None, or the state of the task it refers to
    sched_stop_event,        \* _stop_event
    sched_stopping,          \* a stop() call is awaiting the task
    sched_live,              \* tasks of the scheduler that have not ended
    sched_spawned,           \* tasks the scheduler has created
    sched_last,              \* the latest start() or stop() call
    sched_loop,              \* what the ticks of the current tasks have done
    \* ---- scheduler/heartbeat.py: ticks
    hb_window,               \* config.active_start_hour, config.active_end_hour
    hb_rows,                 \* status of each row of storage/heartbeat_runs.jsonl
    hb_saved,                \* roles of the messages saved to the heartbeat session
    hb_ticks,                \* _tick_once calls so far
    hb_tick,                 \* the latest _tick_once call
    \* ---- tools/path_guard.py
    pg_in,                   \* arguments of one resolve_workspace_path call, and the
                             \* file system it runs on
    pg_out,                  \* what the call returned or raised
    \* ---- graph/memory_indexer.py, graph/retrieval_store.py
    idx_text,                \* memory/MEMORY.md
    idx_cfg,                 \* retrieval settings and embedding provider in force
    idx_stores,              \* index_meta and chunks of retrieval.db, and index.json
    idx_now,                 \* int(time.time() * 1000)
    idx_last,                \* the latest operation on the index
    idx_ops,                 \* operations on the index so far
    \* ---- graph/agent.py (AgentManager), config.py, api/config_api.py
    ag_global,               \* config.json of the backend root
    ag_config,               \* config.json of the agent's workspace root
    ag_files,                \* the other files of the agent's workspace root
    ag_base,                 \* SKILLS_SNAPSHOT.md of the backend root
    ag_runtime,              \* _runtimes[agent_id]
    ag_objs,                 \* RuntimeConfig objects built for the agent so far
    ag_clock,                \* the clock that stamps st_mtime_ns
    ag_writeback,            \* what the agent's config.json owes to the agent
    ag_last,                 \* the latest request or edit
    ag_ops,                  \* requests and edits so far
    \* ---- scheduler/cron.py: _run_job on one job
    rj_cfg,                  \* CronRuntimeConfig of the scheduler
    rj_job,                  \* the job
    rj_file,                 \* rows of cron_failures.jsonl
    rj_now,                  \* time.time(), in seconds
    rj_last,                 \* the latest execution
    rj_n,                    \* executions so far
    \* ---- graph/session_manager.py: the files of one session id
    sm_active,               \* sessions/<id>.json
    sm_archived,             \* archived_sessions/<id>.json
    sm_tasks,                \* the handlers in progress on the session
    sm_hist                  \* what has been appended, compressed, archived

policyVars == <<pol_in, pol_out>>
toolVars == <<repeat_identical_failure_limit, repeat_failure_counts, audit_tail, calls, ncalls>>
usageVars == <<usage_state, usage_sources, usage_observed, usage_last, naccum>>
chatVars == <<max_retries, runs, active_run, subs, sess_messages, sess_live, sess_title,
              nonstream, reqlog>>
cronVars == <<cron_cfg, cron_jobs, cron_runs, cron_failures, cron_now, cron_lock, cron_tick,
              cron_reqs, cron_fired, cron_used, cron_calls>>
lifeVars == <<sched_enabled, sched_task, sched_stop_event, sched_stopping, sched_live,
              sched_spawned, sched_last, sched_loop>>
hbVars == <<hb_window, hb_rows, hb_saved, hb_ticks, hb_tick>>
pathVars == <<pg_in, pg_out>>
schedVars == <<cronVars, lifeVars, hbVars, pathVars>>
indexVars == <<idx_text, idx_cfg, idx_stores, idx_now, idx_last, idx_ops>>
agentVars == <<ag_global, ag_config, ag_files, ag_base, ag_runtime, ag_objs, ag_clock,
               ag_writeback, ag_last, ag_ops>>
runJobVars == <<rj_cfg, rj_job, rj_file, rj_now, rj_last, rj_n>>
sessionVars == <<sm_active, sm_archived, sm_tasks, sm_hist>>
storeVars == <<indexVars, agentVars, runJobVars, sessionVars>>
vars == <<policyVars, toolVars, usageVars, chatVars, schedVars, storeVars>>

----------------------------------------------------------------------------
(* Generic helpers *)

Max(a, b) == IF a >= b THEN a ELSE b

Min(a, b) == IF a <= b THEN a ELSE b

RECURSIVE Pow2(_)
Pow2(n) == IF n <= 0 THEN 1 ELSE 2 * Pow2(n - 1)

\* Python's None
NoneVal == "None"

\* Text is a sequence of one-character strings.
IsSpace(c) == c \in {" ", "\n"}

RECURSIVE LStrip(_)
LStrip(s) == IF s # << >> /\ IsSpace(Head(s)) THEN LStrip(Tail(s)) ELSE s

RECURSIVE RStrip(_)
RStrip(s) ==
    IF s # << >> /\ IsSpace(s[Len(s)]) THEN RStrip(SubSeq(s, 1, Len(s) - 1)) ELSE s

\* str.strip()
Strip(s) == RStrip(LStrip(s))

RECURSIVE SumOver(_, _)
SumOver(S, f) ==
    IF S = {} THEN 0
    ELSE LET x == CHOOSE y \in S : TRUE IN f[x] + SumOver(S \ {x}, f)

----------------------------------------------------------------------------
(* tools/policy.py *)

L0_READ == 0
L1_WRITE == 1
L2_NETWORK == 2
L3_SYSTEM == 3

PermissionLevel == {L0_READ, L1_WRITE, L2_NETWORK, L3_SYSTEM}

\* Trigger types; "webhook" stands for any trigger missing from the table.
TriggerTypes == {"chat", "heartbeat", "cron", "webhook"}

KnownTriggers == {"chat", "heartbeat", "cron"}

DEFAULT_MAX_LEVEL_BY_TRIGGER ==
    [t \in KnownTriggers |-> IF t = "chat" THEN L3_SYSTEM ELSE L0_READ]

AUTONOMOUS_TRIGGERS == {"heartbeat", "cron"}

\* max_level_by_trigger.get(trigger_type, PermissionLevel.L0_READ)
MaxLevel(trigger_type) ==
    IF trigger_type \in DOMAIN DEFAULT_MAX_LEVEL_BY_TRIGGER
    THEN DEFAULT_MAX_LEVEL_BY_TRIGGER[trigger_type]
    ELSE L0_READ

\* explicit_enabled_tools=None (a list of names is modelled as the set of its names)
NoneList == {NoneVal}

\* set(explicit_enabled_tools or [])
EnabledSet(explicit_enabled_tools) ==
    IF explicit_enabled_tools = NoneList THEN {} ELSE explicit_enabled_tools

PolicyDecision(allowed, reason) == [allowed |-> allowed, reason |-> reason]

\* Mutant: the level cap ignores the trigger and applies the chat ceiling.
is_allowed_nocap(tool_name, permission_level, trigger_type, explicit_enabled_tools) ==
    LET enabled == EnabledSet(explicit_enabled_tools) IN
    IF trigger_type \in AUTONOMOUS_TRIGGERS /\ tool_name \in enabled
    THEN PolicyDecision(TRUE, "allowed_via_explicit_enable")
    ELSE IF trigger_type \notin AUTONOMOUS_TRIGGERS /\ enabled # {} /\ tool_name \notin enabled
    THEN PolicyDecision(FALSE, "not_in_explicit_enabled_set")
    ELSE IF permission_level > L3_SYSTEM
    THEN PolicyDecision(FALSE, "level_exceeds_max")
    ELSE PolicyDecision(TRUE, "allowed")

\* ToolPolicyEngine.is_allowed
is_allowed(tool_name, permission_level, trigger_type, explicit_enabled_tools) ==
    LET enabled == EnabledSet(explicit_enabled_tools) IN
    IF trigger_type \in AUTONOMOUS_TRIGGERS /\ tool_name \in enabled
    THEN PolicyDecision(TRUE, "allowed_via_explicit_enable")
    ELSE IF trigger_type \notin AUTONOMOUS_TRIGGERS /\ enabled # {} /\ tool_name \notin enabled
    THEN PolicyDecision(FALSE, "not_in_explicit_enabled_set")
    ELSE IF permission_level > MaxLevel(trigger_type)
    THEN PolicyDecision(FALSE, "level_exceeds_max")
    ELSE PolicyDecision(TRUE, "allowed")

ToolNames == {"read_file", "python_repl", "fetch_url", "terminal"}

\* explicit_enabled_tools: None or a list of names (order and repeats do not matter)
EnabledLists == {NoneList} \cup SUBSET ToolNames

\* no PolicyDecision yet
NoDecision == PolicyDecision(FALSE, "undecided")

PolicyInputs ==
    [tool_name : ToolNames, permission_level : PermissionLevel,
     trigger_type : TriggerTypes, explicit_enabled_tools : EnabledLists]

PolicyInit ==
    /\ pol_in \in PolicyInputs
    /\ pol_out = NoDecision

PolicyIdle ==
    /\ pol_in = [tool_name |-> "read_file", permission_level |-> L0_READ,
                 trigger_type |-> "chat", explicit_enabled_tools |-> NoneList]
    /\ pol_out = NoDecision

\* One call of is_allowed on the drawn arguments.
Decide ==
    /\ pol_out = NoDecision
    /\ pol_out' = is_allowed(pol_in.tool_name, pol_in.permission_level,
                             pol_in.trigger_type, pol_in.explicit_enabled_tools)
    /\ UNCHANGED pol_in

PolicyNext == Decide

----------------------------------------------------------------------------
(* tools/runner.py *)

MaxCalls == 3            \* run_tool calls explored
MaxLimit == 2            \* largest configured repeat_identical_failure_limit explored

\* MiniTool instances: name and permission_level
Tools ==
    { [name |-> "read_file", permission_level |-> L0_READ],
      [name |-> "terminal", permission_level |-> L3_SYSTEM] }

\* ToolContext values
Contexts ==
    { [trigger_type |-> "chat", explicit_enabled_tools |-> {},
       run_id |-> "run-1", session_id |-> "s1"],
      [trigger_type |-> "chat", explicit_enabled_tools |-> {},
       run_id |-> "run-2", session_id |-> "s1"],
      [trigger_type |-> "cron", explicit_enabled_tools |-> {"terminal"},
       run_id |-> NoneVal, session_id |-> "s1"] }

\* args dictionaries
ArgsSet ==
    { [k \in {"path"} |-> "a"],
      [k \in {"mode", "path"} |-> IF k = "mode" THEN "r" ELSE "a"] }

\* explicit_enabled_tools argument of run_tool
RunEnabledArgs == {NoneList, {}, {"read_file"}}

\* what tool.run does: return success, return a failure result, or raise
ToolOutcomes == {"ok", "fail", "raise"}

\* json.dumps(args, sort_keys=True): the items in key order ("mode" < "path")
_args_fingerprint(args) ==
    LET m == IF "mode" \in DOMAIN args THEN <<<<"mode", args["mode"]>>>> ELSE <<>>
        p == IF "path" \in DOMAIN args THEN <<<<"path", args["path"]>>>> ELSE <<>>
    IN m \o p

\* ToolRunner._scope_key
_scope_key(context) ==
    IF context.run_id # NoneVal /\ context.run_id # ""
    THEN <<context.run_id>>
    ELSE <<(IF context.session_id = NoneVal \/ context.session_id = ""
            THEN "__session__" ELSE context.session_id),
           context.trigger_type>>

\* Mutant: the key leaves the arguments out.
FailureKey_no_args(tool, args, context) ==
    <<_scope_key(context), tool.name, << >>>>

FailureKey(tool, args, context) ==
    <<_scope_key(context), tool.name, _args_fingerprint(args)>>

FailureKeys ==
    { FailureKey(t, a, c) : t \in Tools, a \in ArgsSet, c \in Contexts }

\* {}
EmptyDict == [k \in {} |-> 0]

\* dict.get(key, 0)
GetCount(counts, key) == IF key \in DOMAIN counts THEN counts[key] ELSE 0

\* dict[key] = value
SetCount(counts, key, value) ==
    [k \in DOMAIN counts \cup {key} |-> IF k = key THEN value ELSE counts[k]]

\* dict.pop(key, None)
PopCount(counts, key) == [k \in DOMAIN counts \ {key} |-> counts[k]]

\* effective_enabled_tools (runner.py 57-59)
EffectiveEnabled(explicit_enabled_tools, context) ==
    IF explicit_enabled_tools = NoneList /\ context.explicit_enabled_tools # {}
    THEN context.explicit_enabled_tools
    ELSE explicit_enabled_tools

AuditStart == [event |-> "tool_start", ok |-> FALSE, policy_decision |-> NoneVal]

\* Mutant: a denied call writes no tool_end line (the start line is repeated).
AuditEnd_allowed_only(ok, decision) ==
    IF decision = "denied" THEN AuditStart
    ELSE [event |-> "tool_end", ok |-> ok, policy_decision |-> decision]

AuditEnd(ok, decision) == [event |-> "tool_end", ok |-> ok, policy_decision |-> decision]

\* What one run_tool call did: the policy decision, the code of the returned
\* ToolResult ("OK" for success), whether tool.run was invoked, the message.
CallEntry(allowed, code, invoked, message) ==
    [allowed |-> allowed, code |-> code, invoked |-> invoked, message |-> message]

ToolsInit ==
    /\ repeat_identical_failure_limit \in 1..MaxLimit
    /\ repeat_failure_counts = EmptyDict
    /\ audit_tail = << >>
    /\ calls = [k \in FailureKeys |-> << >>]
    /\ ncalls = 0

ToolsIdle ==
    /\ repeat_identical_failure_limit = 2
    /\ repeat_failure_counts = EmptyDict
    /\ audit_tail = << >>
    /\ calls = EmptyDict
    /\ ncalls = 0

\* Mutant: the guard lets one more identical failure through.
GuardBlocks_late(prior_failures) == prior_failures > repeat_identical_failure_limit

\* runner.py 120: prior_failures >= self.repeat_identical_failure_limit
GuardBlocks(prior_failures) == prior_failures >= repeat_identical_failure_limit

\* ToolRunner.run_tool
run_tool(tool, args, context, explicit_enabled_tools, outcome) ==
    LET enabled == EffectiveEnabled(explicit_enabled_tools, context)
        decision == is_allowed(tool.name, tool.permission_level,
                               context.trigger_type, enabled)
        failure_key == FailureKey(tool, args, context)
        prior_failures == GetCount(repeat_failure_counts, failure_key)
        Log(entry) == calls' = [calls EXCEPT ![failure_key] = Append(@, entry)]
    IN
    /\ ncalls < MaxCalls
    /\ ncalls' = ncalls + 1
    /\ UNCHANGED repeat_identical_failure_limit
    /\ IF ~decision.allowed
       THEN /\ audit_tail' = <<AuditStart, AuditEnd(FALSE, "denied")>>
            /\ Log(CallEntry(FALSE, "E_POLICY_DENIED", FALSE,
                             decision.reason))
            /\ UNCHANGED repeat_failure_counts
       ELSE IF GuardBlocks(prior_failures)
       THEN /\ audit_tail' = <<AuditStart, AuditEnd(FALSE, "denied")>>
            /\ Log(CallEntry(TRUE, "E_POLICY_DENIED", FALSE,
                             "retry blocked"))
            /\ UNCHANGED repeat_failure_counts
       ELSE IF outcome = "ok"
       THEN /\ repeat_failure_counts' = PopCount(repeat_failure_counts, failure_key)
            /\ audit_tail' = <<AuditStart, AuditEnd(TRUE, "allowed")>>
            /\ Log(CallEntry(TRUE, "OK", TRUE, ""))
       ELSE IF outcome = "fail"
       THEN /\ repeat_failure_counts' =
                   SetCount(repeat_failure_counts, failure_key, prior_failures + 1)
            /\ audit_tail' = <<AuditStart, AuditEnd(FALSE, "allowed")>>
            /\ Log(CallEntry(TRUE, "E_EXEC", TRUE,
                             "simulated failure"))
       ELSE /\ repeat_failure_counts' =
                   SetCount(repeat_failure_counts, failure_key, prior_failures + 1)
            /\ audit_tail' = <<AuditStart, AuditEnd(FALSE, "allowed")>>
            /\ Log(CallEntry(TRUE, "E_INTERNAL", TRUE,
                             "Unhandled tool exception"))

RunTool ==
    \E tool \in Tools, args \in ArgsSet, context \in Contexts,
       explicit_enabled_tools \in RunEnabledArgs, outcome \in ToolOutcomes :
        run_tool(tool, args, context, explicit_enabled_tools, outcome)

ToolsNext == RunTool

----------------------------------------------------------------------------
(* graph/session_manager.py, api/chat.py, graph/agent.py (astream) *)

MaxRetries == 2          \* largest configured max_retries explored
MaxChunks == 3           \* provider chunks (tokens, tool calls) of one run
MaxToolCalls == 2
MaxRequests == 2         \* chat requests explored
MaxQueue == 3            \* capacity of a subscriber queue (512 in chat.py, scaled)

\* config.py: AgentRuntimeConfig.max_retries
DefaultMaxRetries == 1

\* Request messages (min_length=1); the last differs from the first only by
\* trailing whitespace.
Messages == { <<"a">>, <<"b">>, <<"a", " ">> }

\* Text of one streamed token chunk.
TokenTexts == { <<"x">>, <<" ">> }

\* Content of a model update of a provider that streamed no tokens in the step.
UpdateContents == { << >>, <<"x">>, <<" ">> }

\* Text returned by run_once for a stream=false request.
RunOnceText == <<"x">>

\* uuid4 of attempt number `attempt` of run r
RunId(r, attempt) == <<r, attempt>>

\* "" (no run id yet)
NoRunId == << >>

\* "__pending__"
PendingRunId == <<0, 0>>

NoLive == [present |-> FALSE, run_id |-> NoRunId, content |-> << >>, tool_calls |-> << >>]

Event(type, content, run_id) == [type |-> type, content |-> content, run_id |-> run_id]

\* "".join(parts)
RECURSIVE Concat(_)
Concat(parts) == IF parts = << >> THEN << >> ELSE Head(parts) \o Concat(Tail(parts))

\* "\n\n".join(parts)
RECURSIVE JoinParagraphs(_)
JoinParagraphs(parts) ==
    IF parts = << >> THEN << >>
    ELSE IF Len(parts) = 1 THEN Head(parts)
    ELSE Head(parts) \o <<"\n", "\n">> \o JoinParagraphs(Tail(parts))

\* ---- SessionManager

\* SessionManager.save_message
save_message(messages, role, content, tool_calls) ==
    Append(messages, [role |-> role, content |-> content, tool_calls |-> tool_calls])

\* SessionManager.set_live_response
set_live_response(run_id, content, tool_calls) ==
    [present |-> TRUE, run_id |-> run_id, content |-> content, tool_calls |-> tool_calls]

\* SessionManager.clear_live_response; run_id = NoRunId stands for None
clear_live_response(live, run_id) ==
    IF ~live.present THEN live
    ELSE IF run_id # NoRunId /\ live.run_id # run_id THEN live
    ELSE NoLive

\* SessionManager.with_live_response: the history as GET .../history returns it
with_live_response(messages, live) ==
    LET plain == [i \in 1..Len(messages) |->
                     [role |-> messages[i].role, content |-> messages[i].content,
                      streaming |-> FALSE]]
    IN IF ~live.present THEN plain
       ELSE IF Strip(live.content) = << >> /\ live.tool_calls = << >> THEN plain
       ELSE Append(plain, [role |-> "assistant", content |-> Strip(live.content),
                           streaming |-> TRUE])

\* ---- api/chat.py helpers; st is a _StreamRunState

\* _snapshot_live_content
_snapshot_live_content(st) ==
    LET texts == [i \in 1..Len(st.assistant_segments) |->
                     Strip(st.assistant_segments[i].content)]
        kept == SelectSeq(texts, LAMBDA t : t # << >>)
        current == Strip(st.current_content)
        content_parts == IF current # << >> THEN Append(kept, current) ELSE kept
    IN Strip(JoinParagraphs(content_parts))

\* _flush_current_segment
_flush_current_segment(st, fallback_content) ==
    LET stripped == Strip(st.current_content)
        content == IF stripped # << >> THEN stripped ELSE Strip(fallback_content)
        segments ==
            IF content # << >> \/ st.current_tool_calls # << >>
            THEN Append(st.assistant_segments,
                        [content |-> content, tool_calls |-> st.current_tool_calls,
                         spans |-> IF stripped # << >> THEN st.current_spans
                                   ELSE IF content # << >> THEN st.done_spans
                                   ELSE {}])
            ELSE st.assistant_segments
    IN [st EXCEPT !.assistant_segments = segments,
                  !.current_content = << >>,
                  !.current_tool_calls = << >>,
                  !.current_spans = {}]

\* A world w bundles the run state being advanced with the session file and
\* the subscriber queues it writes to.
World(r) ==
    [st |-> runs[r], live |-> sess_live, messages |-> sess_messages,
     title |-> sess_title, subs |-> subs]

\* _persist_live_snapshot; elapsed: at least 350 ms passed since the last sync
_persist_live_snapshot(w, force, elapsed) ==
    IF ~force /\ ~(w.st.sync_due \/ elapsed) THEN w
    ELSE LET content == _snapshot_live_content(w.st)
             tool_calls == w.st.current_tool_calls
         IN IF content = << >> /\ tool_calls = << >> THEN w
            ELSE [w EXCEPT !.live = set_live_response(
                                        IF w.st.run_id # NoRunId THEN w.st.run_id
                                        ELSE PendingRunId,
                                        content, tool_calls),
                           !.st.sync_due = FALSE]

PutDropOldest_keep_old(queue, payload) ==
    IF Len(queue) < MaxQueue THEN Append(queue, payload) ELSE queue

\* asyncio.Queue.put_nowait with the drop-oldest fallback of _publish_event
PutDropOldest(queue, payload) ==
    IF Len(queue) < MaxQueue THEN Append(queue, payload)
    ELSE Append(Tail(queue), payload)

\* _publish_event
_publish_event(w, event_type) ==
    [w EXCEPT !.subs = [i \in 1..Len(w.subs) |->
                           IF i \in w.st.subscribers
                           THEN [w.subs[i] EXCEPT !.queue = PutDropOldest(@, event_type)]
                           ELSE w.subs[i]],
              !.st.published = Append(@, event_type)]

\* _close_run, apart from the removal from _active_runs
_close_run(w) ==
    IF w.st.done THEN w
    ELSE [w EXCEPT !.st.done = TRUE,
                   !.st.subscribers = {},
                   !.st.pc = "closed",
                   !.subs = [i \in 1..Len(w.subs) |->
                                IF i \in w.st.subscribers /\ Len(w.subs[i].queue) < MaxQueue
                                THEN [w.subs[i] EXCEPT !.queue = Append(@, NoneVal)]
                                ELSE w.subs[i]]]

\* the save_message loop of _persist_final_segments
RECURSIVE SaveSegments(_, _)
SaveSegments(messages, segments) ==
    IF segments = << >> THEN messages
    ELSE LET content == Strip(Head(segments).content) IN
         SaveSegments(
             IF content = << >> THEN messages
             ELSE save_message(messages, "assistant", content, Head(segments).tool_calls),
             Tail(segments))

\* _persist_final_segments
_persist_final_segments(w) ==
    [w EXCEPT !.live = clear_live_response(w.live, w.st.run_id),
              !.messages = SaveSegments(w.messages, w.st.assistant_segments)]

\* History: the side of the tool calls on which a piece of visible text was
\* produced (the number of tool_end events handled before it).
PhaseOf(st, text) == IF Strip(text) # << >> THEN {st.tool_ends} ELSE {}

\* ---- _run_stream_task: the body of the event loop (chat.py 224-249, 265)

\* Effect of one event other than `done` on the run state and the session.
OnEvent(w, ev, elapsed) ==
    LET w1 ==
            CASE ev.type = "run_start" ->
                    IF ev.run_id # NoRunId
                    THEN _persist_live_snapshot([w EXCEPT !.st.run_id = ev.run_id],
                                                TRUE, elapsed)
                    ELSE w
              [] ev.type = "token" ->
                    _persist_live_snapshot(
                        [w EXCEPT !.st.current_content = @ \o ev.content,
                                  !.st.current_spans = @ \cup PhaseOf(w.st, ev.content)],
                        FALSE, elapsed)
              [] ev.type = "tool_start" ->
                    _persist_live_snapshot(
                        [w EXCEPT !.st.current_tool_calls =
                                      Append(@, [tool |-> "read_file", has_output |-> FALSE])],
                        TRUE, elapsed)
              [] ev.type = "tool_end" ->
                    LET n == Len(w.st.current_tool_calls)
                        w0 == [w EXCEPT !.st.tool_ends = @ + 1]
                    IN IF n > 0
                       THEN _persist_live_snapshot(
                                [w0 EXCEPT !.st.current_tool_calls[n].has_output = TRUE],
                                TRUE, elapsed)
                       ELSE w0
              [] ev.type = "new_response" ->
                    _persist_live_snapshot(
                        [w EXCEPT !.st = _flush_current_segment(w.st, << >>)],
                        TRUE, elapsed)
              [] OTHER -> w
    IN _publish_event(w1, ev.type)

RECURSIVE OnEvents(_, _, _)
OnEvents(w, evs, elapsed) ==
    IF evs = << >> THEN w
    ELSE OnEvents(OnEvent(w, Head(evs), elapsed), Tail(evs), elapsed)

\* chat.py 278-281 and the finally clause: the generator is exhausted
AfterLoop(w) ==
    IF w.st.persisted_final THEN _close_run(w)
    ELSE LET w1 == [w EXCEPT !.st = _flush_current_segment(w.st, << >>)] IN
         _close_run(IF w1.st.assistant_segments # << >>
                    THEN _persist_final_segments(w1) ELSE w1)

\* chat.py 283-295: an exception escaped the loop
OnException(w) ==
    _close_run(_publish_event(
        [w EXCEPT !.live = clear_live_response(w.live, w.st.run_id)], "error"))

\* ---- AgentManager.astream

\* AgentManager._diff_incremental
_diff_incremental(previous, current) ==
    IF current = << >> THEN << >>
    ELSE IF previous = << >> THEN current
    ELSE IF Len(current) >= Len(previous) /\ SubSeq(current, 1, Len(previous)) = previous
    THEN SubSeq(current, Len(previous) + 1, Len(current))
    ELSE current

\* 0.5 * (2**attempt) seconds, in milliseconds
BackoffMs(attempt) == 500 * Pow2(attempt)

AgentUpdate == Event("agent_update", << >>, NoRunId)

BoundaryEvents_never(st) == << >>

\* agent.py 1294-1299 and 1380-1382: the boundary owed before a token
BoundaryEvents(st) ==
    IF st.pending_new_response THEN <<Event("new_response", << >>, NoRunId)>> ELSE << >>

\* Mutant: one retry more than configured.
AttemptsRemain_extra(attempt) == attempt < max_retries + 1

\* agent.py 1493: attempt < max_retries
AttemptsRemain(attempt) == attempt < max_retries

\* The run state of a fresh request (chat.py 364-370) with the locals of its
\* task and of its astream generator.
NewRun(message, is_first_turn) ==
    [ message |-> message, is_first_turn |-> is_first_turn, subscribers |-> {},
      done |-> FALSE, run_id |-> NoRunId, assistant_segments |-> << >>,
      current_content |-> << >>, current_tool_calls |-> << >>,
      sync_due |-> TRUE,                 \* last_live_sync_ms = 0
      pc |-> "created", persisted_final |-> FALSE,
      attempt |-> 0, pending_new_response |-> FALSE, final_tokens |-> << >>,
      fallback_final_text |-> << >>, token_source |-> NoneVal,
      latest_model_snapshot |-> << >>, emitted_agent_update |-> FALSE,
      \* the provider stream of the current attempt
      prov |-> "model", step_text |-> << >>, chunks_left |-> MaxChunks,
      tools_left |-> MaxToolCalls,
      \* history
      published |-> << >>, sleeps |-> << >>, raised |-> 0, tool_ends |-> 0,
      token_sources |-> {},              \* data.source of the token events so far
      step_model |-> << >>,              \* text the model produced in this step
      step_emitted |-> << >>,            \* text of it emitted in token events
      attempt_tokens |-> << >>,          \* text of the token events of this attempt
      current_spans |-> {}, final_spans |-> {}, fallback_spans |-> {},
      done_spans |-> {}, done_content |-> << >>, ended_by |-> NoneVal ]

Commit(r, w) ==
    /\ runs' = [runs EXCEPT ![r] = w.st]
    /\ sess_live' = w.live
    /\ sess_messages' = w.messages
    /\ sess_title' = w.title
    /\ subs' = w.subs
    /\ active_run' = IF w.st.done /\ active_run = r THEN 0 ELSE active_run
    /\ UNCHANGED <<max_retries, nonstream, reqlog>>

\* Mutant: the provider stream keeps yielding after the turn has ended.
Streaming_any(r) == r \in 1..Len(runs) /\ runs[r].pc # "created"

\* The generator is suspended inside `async for mode, chunk in agent.astream`
Streaming(r) == r \in 1..Len(runs) /\ runs[r].pc = "streaming"

\* The task starts: the user message is saved, astream is set up and its first
\* attempt announces itself (chat.py 201, agent.py 1148-1210).
TaskStart(r) ==
    /\ r \in 1..Len(runs) /\ runs[r].pc = "created"
    /\ LET w0 == [World(r) EXCEPT
                     !.messages = save_message(@, "user", runs[r].message, << >>),
                     !.st.pc = "streaming"]
       IN Commit(r, OnEvent(w0, Event("run_start", << >>, RunId(r, 0)), TRUE))

\* The task starts but astream raises before its retry loop (runtime, retrieval
\* or prompt construction fails).
TaskStartRaises(r) ==
    /\ r \in 1..Len(runs) /\ runs[r].pc = "created"
    /\ LET w0 == [World(r) EXCEPT
                     !.messages = save_message(@, "user", runs[r].message, << >>),
                     !.st.ended_by = "exception"]
       IN Commit(r, OnException(w0))

\* A ("messages", token) chunk of the model node (agent.py 1347-1387).
Token(r, text, elapsed) ==
    /\ Streaming(r) /\ runs[r].prov = "model" /\ runs[r].chunks_left > 0
    /\ LET st == runs[r]
           st0 == [st EXCEPT !.chunks_left = @ - 1, !.step_text = @ \o text,
                             !.step_model = @ \o text]
       IN IF st.token_source \notin {NoneVal, "messages"}
          THEN Commit(r, [World(r) EXCEPT !.st = st0])
          ELSE LET evs == (IF st.emitted_agent_update THEN << >> ELSE <<AgentUpdate>>)
                            \o BoundaryEvents(st)
                            \o <<Event("token", text, NoRunId)>>
                   st1 == [st0 EXCEPT !.emitted_agent_update = TRUE,
                                      !.token_source = "messages",
                                      !.pending_new_response = FALSE,
                                      !.final_tokens = @ \o text,
                                      !.final_spans = @ \cup PhaseOf(st, text),
                                      !.token_sources = @ \cup {"messages"},
                                      !.step_emitted = @ \o text,
                                      !.attempt_tokens = @ \o text]
               IN Commit(r, OnEvents([World(r) EXCEPT !.st = st1], evs, elapsed))

\* An ("updates", model) chunk whose message carries a tool call (agent.py 1268-1281).
ToolCall(r) ==
    /\ Streaming(r) /\ runs[r].prov = "model" /\ runs[r].tools_left > 0
    /\ LET st1 == [runs[r] EXCEPT !.tools_left = @ - 1, !.prov = "tools",
                                  !.emitted_agent_update = TRUE]
       IN Commit(r, OnEvents([World(r) EXCEPT !.st = st1],
                             <<AgentUpdate, Event("tool_start", << >>, NoRunId)>>, TRUE))

\* The ("updates", tools) chunk that follows a tool call (agent.py 1328-1345).
ToolsDone(r) ==
    /\ Streaming(r) /\ runs[r].prov = "tools"
    /\ LET st1 == [runs[r] EXCEPT !.prov = "model", !.step_text = << >>,
                                  !.step_model = << >>, !.step_emitted = << >>,
                                  !.emitted_agent_update = TRUE,
                                  !.pending_new_response = TRUE]
       IN Commit(r, OnEvents([World(r) EXCEPT !.st = st1],
                             <<AgentUpdate, Event("tool_end", << >>, NoRunId)>>, TRUE))

UpdatesEmit_any_source(st, content, delta) == content # << >> /\ delta # << >>

\* agent.py 1286-1293: a delta of the update is emitted as a token
UpdatesEmit(st, content, delta) ==
    content # << >> /\ st.token_source = NoneVal /\ delta # << >>

\* The ("updates", model) chunk of the final answer (agent.py 1282-1308): its
\* content is the text streamed in this step, or any text when none was streamed.
ModelContent(r, chosen, elapsed) ==
    /\ Streaming(r) /\ runs[r].prov = "model"
    /\ LET st == runs[r]
           content == IF st.step_text # << >> THEN st.step_text ELSE chosen
           st0 == [st EXCEPT !.prov = "final", !.emitted_agent_update = TRUE,
                             !.step_model = content,
                             !.fallback_final_text =
                                 IF content # << >> THEN content ELSE @,
                             !.fallback_spans =
                                 IF content # << >> THEN PhaseOf(st, content) ELSE @]
           delta == _diff_incremental(st.latest_model_snapshot, content)
           emits == UpdatesEmit(st, content, delta)
           st1 == IF content # << >> /\ st.token_source = NoneVal
                  THEN [st0 EXCEPT !.latest_model_snapshot = content] ELSE st0
           st2 == IF emits
                  THEN [st1 EXCEPT !.pending_new_response = FALSE,
                                   !.token_source = "updates",
                                   !.final_tokens = @ \o delta,
                                   !.final_spans = @ \cup PhaseOf(st, delta),
                                   !.token_sources = @ \cup {"updates"},
                                   !.step_emitted = @ \o delta,
                                   !.attempt_tokens = @ \o delta]
                  ELSE st1
           evs == <<AgentUpdate>> \o
                  (IF emits THEN BoundaryEvents(st) \o <<Event("token", delta, NoRunId)>>
                   ELSE << >>)
       IN Commit(r, OnEvents([World(r) EXCEPT !.st = st2], evs, elapsed))

\* The provider stream raises (agent.py 1492-1504).
ProviderRaises(r) ==
    /\ Streaming(r)
    /\ LET st == [runs[r] EXCEPT !.raised = @ + 1] IN
       IF AttemptsRemain(st.attempt)
       THEN Commit(r, [World(r) EXCEPT
                          !.st = [st EXCEPT !.pc = "backoff",
                                            !.sleeps = Append(@, BackoffMs(st.attempt))]])
       ELSE Commit(r, AfterLoop(OnEvent(
                [World(r) EXCEPT !.st = [st EXCEPT !.ended_by = "error"]],
                Event("error", << >>, st.run_id), TRUE)))

\* The backoff sleep is over: the next attempt starts (agent.py 1204-1210).
BackoffDone(r) ==
    /\ r \in 1..Len(runs) /\ runs[r].pc = "backoff"
    /\ LET st == runs[r]
           st1 == [st EXCEPT !.pc = "streaming", !.attempt = @ + 1,
                             !.prov = "model", !.step_text = << >>,
                             !.step_model = << >>, !.step_emitted = << >>,
                             !.attempt_tokens = << >>,
                             !.sync_due = TRUE]
       IN Commit(r, OnEvent([World(r) EXCEPT !.st = st1],
                            Event("run_start", << >>, RunId(r, st.attempt + 1)), TRUE))

\* chat.py 252-256: the `done` event is handled up to the title request
OnDone(w, content) ==
    LET w1 == [w EXCEPT !.st = _flush_current_segment(w.st, Strip(content))]
        w2 == _persist_final_segments(w1)
    IN [w2 EXCEPT !.st.persisted_final = TRUE, !.st.done_content = content,
                  !.st.ended_by = "done"]

\* The provider stream ends normally: `done` (agent.py 1468-1490, chat.py 252-265).
StreamEnds(r) ==
    /\ Streaming(r) /\ runs[r].prov = "final"
    /\ LET st == runs[r]
           stripped == Strip(st.final_tokens)
           final_content == IF stripped # << >> THEN stripped ELSE st.fallback_final_text
           w1 == OnDone([World(r) EXCEPT
                            !.st.done_spans = IF stripped # << >> THEN st.final_spans
                                              ELSE st.fallback_spans],
                        final_content)
       IN IF st.is_first_turn
          THEN Commit(r, [w1 EXCEPT !.st.pc = "titling"])
          ELSE Commit(r, AfterLoop(_publish_event(w1, "done")))

\* generate_title returns: the title is stored, `done` and `title` are
\* published and the task ends (chat.py 257-276).
TitleReturns(r) ==
    /\ r \in 1..Len(runs) /\ runs[r].pc = "titling"
    /\ LET w1 == [World(r) EXCEPT !.title = "generated"] IN
       Commit(r, AfterLoop(_publish_event(_publish_event(w1, "done"), "title")))

\* ---- POST /chat (chat.py 316-402)

LogEntry(message, stream, outcome, run) ==
    [message |-> message, stream |-> stream, active |-> active_run # 0,
     active_message |-> IF active_run # 0 THEN runs[active_run].message ELSE << >>,
     outcome |-> outcome, run |-> run]

\* _subscribe_run for a run that is not done: a fresh queue among the subscribers
NewSub(r, since) ==
    [run |-> r, queue |-> << >>, client |-> "reading", seen_token |-> FALSE,
     since |-> since]

\* chat.py 373: state.message.strip() != request.message.strip()
SameMessage(a, b) == Strip(a) = Strip(b)

\* Mutant: every streaming request registers a run of its own.
NoActiveRun_always == TRUE

\* chat.py 358-363: no state is registered under the key, or it is done
NoActiveRun == active_run = 0

\* A stream=true request (chat.py 354-402).
ChatStream(message) ==
    /\ Len(reqlog) < MaxRequests
    /\ LET is_first_turn == sess_messages = << >>
           r == Len(runs) + 1
           i == Len(subs) + 1
       IN IF NoActiveRun
          THEN /\ runs' = Append(runs,
                              [NewRun(message, is_first_turn) EXCEPT !.subscribers = {i}])
               /\ active_run' = r
               /\ subs' = Append(subs, NewSub(r, 0))
               /\ reqlog' = Append(reqlog, LogEntry(message, TRUE, "started", r))
          ELSE IF ~SameMessage(runs[active_run].message, message)
          THEN /\ reqlog' = Append(reqlog, LogEntry(message, TRUE, "session_busy", 0))
               /\ UNCHANGED <<runs, active_run, subs>>
          ELSE /\ runs' = [runs EXCEPT ![active_run].subscribers = @ \cup {i}]
               /\ subs' = Append(subs, NewSub(active_run, Len(runs[active_run].published)))
               /\ reqlog' = Append(reqlog, LogEntry(message, TRUE, "attached", active_run))
               /\ UNCHANGED active_run
    /\ UNCHANGED <<max_retries, sess_messages, sess_live, sess_title, nonstream>>

\* A stream=false request reaches `await agent.run_once` (chat.py 331-340).
ChatNonStreamStart(message) ==
    /\ Len(reqlog) < MaxRequests
    /\ nonstream' = Append(nonstream, [message |-> message, pending |-> TRUE])
    /\ reqlog' = Append(reqlog, LogEntry(message, FALSE, "run_once", 0))
    /\ UNCHANGED <<max_retries, runs, active_run, subs, sess_messages, sess_live,
                   sess_title>>

\* run_once returns and both messages are saved (chat.py 341-352).
ChatNonStreamFinish(n) ==
    /\ n \in 1..Len(nonstream) /\ nonstream[n].pending
    /\ nonstream' = [nonstream EXCEPT ![n].pending = FALSE]
    /\ sess_messages' = save_message(
                            save_message(sess_messages, "user", nonstream[n].message, << >>),
                            "assistant", RunOnceText, << >>)
    /\ UNCHANGED <<max_retries, runs, active_run, subs, sess_live, sess_title, reqlog>>

\* event_generator: the client receives the next payload, or the sentinel
\* ends the response (chat.py 392-400).
ClientRead(i) ==
    /\ i \in 1..Len(subs) /\ subs[i].client = "reading" /\ subs[i].queue # << >>
    /\ LET payload == Head(subs[i].queue) IN
       IF payload = NoneVal
       THEN /\ subs' = [subs EXCEPT ![i].queue = Tail(@), ![i].client = "finished"]
            /\ runs' = [runs EXCEPT ![subs[i].run].subscribers = @ \ {i}]
       ELSE /\ subs' = [subs EXCEPT ![i].queue = Tail(@),
                                    ![i].seen_token = @ \/ payload = "token"]
            /\ UNCHANGED runs
    /\ UNCHANGED <<max_retries, active_run, sess_messages, sess_live, sess_title,
                   nonstream, reqlog>>

\* The client goes away: the response generator is closed and its `finally`
\* unsubscribes the queue (chat.py 399-400).
ClientDisconnect(i) ==
    /\ i \in 1..Len(subs) /\ subs[i].client = "reading"
    /\ subs' = [subs EXCEPT ![i].queue = << >>,
                             ![i].client =
                   IF subs[i].seen_token THEN "left_after_token" ELSE "left_early"]
    /\ runs' = [runs EXCEPT ![subs[i].run].subscribers = @ \ {i}]
    /\ UNCHANGED <<max_retries, active_run, sess_messages, sess_live, sess_title,
                   nonstream, reqlog>>

\* No request has arrived yet (retries switched off).
ChatIdle ==
    /\ max_retries = 0
    /\ runs = << >>
    /\ active_run = 0
    /\ subs = << >>
    /\ sess_messages = << >>
    /\ sess_live = NoLive
    /\ sess_title = "New Session"
    /\ nonstream = << >>
    /\ reqlog = << >>

\* A session that already holds one finished turn.
PriorHistory ==
    save_message(save_message(<< >>, "user", <<"b">>, << >>),
                 "assistant", <<"x">>, << >>)

\* One streaming run from the request to its end: the first request of a
\* session that is new or holds an earlier turn.
StreamInit ==
    /\ max_retries \in {0, DefaultMaxRetries}
    /\ runs = << >>
    /\ active_run = 0
    /\ subs = << >>
    /\ sess_messages \in {<< >>, PriorHistory}
    /\ sess_live = NoLive
    /\ sess_title = "New Session"
    /\ nonstream = << >>
    /\ reqlog = << >>

FirstRequest == reqlog = << >> /\ ChatStream(<<"a">>)

\* The client of test_stream_continues_after_client_disconnect: it reads up to
\* the first token and then goes away.
ReadToFirstToken(i) == ~subs[i].seen_token /\ ClientRead(i)

DisconnectAfterFirstToken(i) == subs[i].seen_token /\ ClientDisconnect(i)

StreamNext ==
    \/ FirstRequest
    \/ \E i \in 1..Len(subs) : ReadToFirstToken(i)
    \/ \E i \in 1..Len(subs) : DisconnectAfterFirstToken(i)
    \/ \E r \in 1..Len(runs) : TaskStart(r)
    \/ \E r \in 1..Len(runs) : TaskStartRaises(r)
    \/ \E r \in 1..Len(runs), text \in TokenTexts, elapsed \in BOOLEAN :
           Token(r, text, elapsed)
    \/ \E r \in 1..Len(runs) : ToolCall(r)
    \/ \E r \in 1..Len(runs) : ToolsDone(r)
    \/ \E r \in 1..Len(runs), chosen \in UpdateContents, elapsed \in BOOLEAN :
           ModelContent(r, chosen, elapsed)
    \/ \E r \in 1..Len(runs) : ProviderRaises(r)
    \/ \E r \in 1..Len(runs) : BackoffDone(r)
    \/ \E r \in 1..Len(runs) : StreamEnds(r)
    \/ \E r \in 1..Len(runs) : TitleReturns(r)

\* The producer side of one streaming run; its subscriber stays attached and
\* does not read.
TurnNext ==
    \/ FirstRequest
    \/ \E r \in 1..Len(runs) : TaskStart(r)
    \/ \E r \in 1..Len(runs) : TaskStartRaises(r)
    \/ \E r \in 1..Len(runs), text \in TokenTexts, elapsed \in BOOLEAN :
           Token(r, text, elapsed)
    \/ \E r \in 1..Len(runs) : ToolCall(r)
    \/ \E r \in 1..Len(runs) : ToolsDone(r)
    \/ \E r \in 1..Len(runs), chosen \in UpdateContents, elapsed \in BOOLEAN :
           ModelContent(r, chosen, elapsed)
    \/ \E r \in 1..Len(runs) : ProviderRaises(r)
    \/ \E r \in 1..Len(runs) : BackoffDone(r)
    \/ \E r \in 1..Len(runs) : StreamEnds(r)
    \/ \E r \in 1..Len(runs) : TitleReturns(r)

\* One streaming run of a provider that keeps failing, for every retry setting.
RetryInit ==
    /\ max_retries \in 0..MaxRetries
    /\ runs = << >>
    /\ active_run = 0
    /\ subs = << >>
    /\ sess_messages = << >>
    /\ sess_live = NoLive
    /\ sess_title = "New Session"
    /\ nonstream = << >>
    /\ reqlog = << >>

RetryNext ==
    \/ FirstRequest
    \/ \E r \in 1..Len(runs) : TaskStart(r)
    \/ \E r \in 1..Len(runs) : Token(r, <<"x">>, TRUE)
    \/ \E r \in 1..Len(runs) : ToolCall(r)
    \/ \E r \in 1..Len(runs) : ToolsDone(r)
    \/ \E r \in 1..Len(runs) : ModelContent(r, << >>, TRUE)
    \/ \E r \in 1..Len(runs) : ProviderRaises(r)
    \/ \E r \in 1..Len(runs) : BackoffDone(r)
    \/ \E r \in 1..Len(runs) : StreamEnds(r)
    \/ \E r \in 1..Len(runs) : TitleReturns(r)

\* The only token of an answer.
OneToken(r) == runs[r].final_tokens = << >> /\ Token(r, <<"x">>, TRUE)

\* Requests arriving on one session while its runs answer with one token.
AdmissionNext ==
    \/ \E message \in Messages : ChatStream(message)
    \/ \E message \in Messages : ChatNonStreamStart(message)
    \/ \E n \in 1..Len(nonstream) : ChatNonStreamFinish(n)
    \/ \E i \in 1..Len(subs) : ClientDisconnect(i)
    \/ \E r \in 1..Len(runs) : TaskStart(r)
    \/ \E r \in 1..Len(runs) : OneToken(r)
    \/ \E r \in 1..Len(runs) : ModelContent(r, << >>, TRUE)
    \/ \E r \in 1..Len(runs) : ProviderRaises(r)
    \/ \E r \in 1..Len(runs) : StreamEnds(r)
    \/ \E r \in 1..Len(runs) : TitleReturns(r)


----------------------------------------------------------------------------
(* graph/agent.py: usage aggregation *)

MaxAccum == 3            \* accumulate calls explored

\* AgentManager._usage_numeric_fields
UsageNumericFields ==
    { "input_tokens", "input_uncached_tokens", "input_cache_read_tokens",
      "input_cache_write_tokens_5m", "input_cache_write_tokens_1h",
      "input_cache_write_tokens_unknown", "output_tokens", "reasoning_tokens",
      "tool_input_tokens", "total_tokens" }

UsageIdentityFields == {"provider", "model", "model_source", "usage_source"}

ZeroUsage == [f \in UsageNumericFields |-> 0]

\* A usage payload with the named counts, the other fields 0.
Usage(inp, unc, cr, w5, w1, wu, out, rea, tin, tot) ==
    [f \in UsageNumericFields |->
        CASE f = "input_tokens" -> inp
          [] f = "input_uncached_tokens" -> unc
          [] f = "input_cache_read_tokens" -> cr
          [] f = "input_cache_write_tokens_5m" -> w5
          [] f = "input_cache_write_tokens_1h" -> w1
          [] f = "input_cache_write_tokens_unknown" -> wu
          [] f = "output_tokens" -> out
          [] f = "reasoning_tokens" -> rea
          [] f = "tool_input_tokens" -> tin
          [] OTHER -> tot]

\* Numeric parts of the candidates passed to accumulate: consistent reports,
\* a growing report, partial reports, and reports whose parts disagree.
UsageCounts ==
    { ZeroUsage,
      Usage(2, 1, 1, 0, 0, 0, 1, 0, 0, 3),
      Usage(3, 1, 2, 0, 0, 0, 2, 0, 0, 5),
      Usage(1, 1, 0, 0, 0, 0, 1, 1, 0, 2),
      Usage(0, 0, 0, 0, 0, 0, 1, 0, 0, 0),
      Usage(0, 0, 1, 1, 0, 0, 0, 0, 0, 0),
      Usage(1, 0, 0, 0, 1, 1, 0, 0, 0, 1),
      Usage(1, 2, 0, 0, 0, 0, 0, 0, 0, 1),
      Usage(0, 0, 0, 0, 0, 0, 0, 0, 1, 1),
      Usage(0, 0, 0, 0, 0, 0, 0, 0, 0, 2) }

Identity(provider, model, model_source, usage_source) ==
    [provider |-> provider, model |-> model,
     model_source |-> model_source, usage_source |-> usage_source]

\* Identity parts of the candidates (already stripped, lower case).
UsageIdentities ==
    { Identity("deepseek", "deepseek-chat", "model_name", "usage_metadata"),
      Identity("openai", "gpt", "response_metadata", "response_metadata"),
      Identity("unknown", "", "", "unknown") }

\* Source ids as _accumulate_usage_from_messages forms them: never blank.
SourceIds == { <<"a">>, <<"b">> }

\* AgentManager._merge_usage_identity, one field
MergeIdentityField(field, current, value) ==
    IF value = "" THEN current
    ELSE IF value = "unknown" /\ current # "" /\ current # "unknown" THEN current
    ELSE IF current # "" /\ current # "unknown" /\ value # "unknown" /\ current # value
    THEN (IF field \in {"provider", "model"} THEN "mixed" ELSE current)
    ELSE value

\* AgentManager._merge_usage_identity
_merge_usage_identity(state, identity) ==
    [f \in DOMAIN state |->
        IF f \in UsageIdentityFields
        THEN MergeIdentityField(f, state[f], identity[f])
        ELSE state[f]]

\* AgentManager._normalize_aggregated_usage
_normalize_aggregated_usage(state) ==
    LET cache_write_total ==
            state["input_cache_write_tokens_5m"] + state["input_cache_write_tokens_1h"]
                + state["input_cache_write_tokens_unknown"]
        cache_read_tokens == state["input_cache_read_tokens"]
        input0 == state["input_tokens"]
        uncached0 == state["input_uncached_tokens"]
        input_tokens ==
            IF input0 <= 0 /\ (uncached0 > 0 \/ cache_read_tokens > 0 \/ cache_write_total > 0)
            THEN uncached0 + cache_read_tokens + cache_write_total
            ELSE input0
        uncached1 ==
            IF uncached0 <= 0 /\ input_tokens > 0
            THEN Max(0, input_tokens - cache_read_tokens - cache_write_total)
            ELSE uncached0
        input_uncached_tokens == IF uncached1 > input_tokens THEN input_tokens ELSE uncached1
        computed_total ==
            input_tokens + state["output_tokens"] + state["tool_input_tokens"]
                + state["reasoning_tokens"]
        total_tokens ==
            IF state["total_tokens"] <= 0 THEN computed_total
            ELSE Max(state["total_tokens"], computed_total)
    IN [state EXCEPT !["input_tokens"] = input_tokens,
                     !["input_uncached_tokens"] = input_uncached_tokens,
                     !["total_tokens"] = total_tokens]

\* Mutant: every report is added in full instead of only its growth.
NextValue_additive(prior_value, incoming_value) == prior_value + incoming_value

\* The per-field step of _accumulate_usage_candidate (agent.py 771-780)
NextValue(prior_value, incoming_value) == Max(prior_value, incoming_value)

UsageInit ==
    /\ usage_state =
          [f \in UsageNumericFields \cup UsageIdentityFields |->
              CASE f = "provider" -> "deepseek"
                [] f = "model" -> "deepseek-chat"
                [] f = "model_source" -> "fallback_model"
                [] f = "usage_source" -> "unknown"
                [] OTHER -> 0]
    /\ usage_sources = EmptyDict
    /\ usage_observed = [s \in SourceIds |-> ZeroUsage]
    /\ usage_last = NoneVal
    /\ naccum = 0

UsageIdle ==
    /\ usage_state = EmptyDict
    /\ usage_sources = EmptyDict
    /\ usage_observed = EmptyDict
    /\ usage_last = NoneVal
    /\ naccum = 0

\* Mutant: the values last observed for a source are forgotten.
PreviousFor_forgotten(sources, source_key) == ZeroUsage

\* usage_sources.get(source_key, zeros) (agent.py 765-767)
PreviousFor(sources, source_key) ==
    IF source_key \in DOMAIN sources THEN sources[source_key] ELSE ZeroUsage

\* AgentManager._accumulate_usage_candidate
_accumulate_usage_candidate(source_id, counts, identity) ==
    LET source_key == Strip(source_id)
        has_signal == \E f \in UsageNumericFields : counts[f] > 0
        previous == PreviousFor(usage_sources, source_key)
        next == [f \in UsageNumericFields |-> NextValue(previous[f], counts[f])]
        changed == \E f \in UsageNumericFields : next[f] > previous[f]
        added == [f \in DOMAIN usage_state |->
                     IF f \in UsageNumericFields
                     THEN usage_state[f] + (next[f] - previous[f])
                     ELSE usage_state[f]]
        returned == source_key # << >> /\ has_signal /\ changed
    IN
    /\ naccum < MaxAccum
    /\ naccum' = naccum + 1
    /\ usage_observed' =
          [usage_observed EXCEPT ![source_id] =
              [f \in UsageNumericFields |-> Max(@[f], counts[f])]]
    /\ usage_last' = [source_id |-> source_id, counts |-> counts,
                      changed |-> returned, before |-> usage_state,
                      replay |-> naccum > 0 /\ usage_last.source_id = source_id
                                    /\ usage_last.counts = counts,
                      fresh |-> source_key \notin DOMAIN usage_sources]
    /\ IF source_key = << >> \/ ~has_signal
       THEN UNCHANGED <<usage_state, usage_sources>>
       ELSE /\ usage_sources' =
                  IF changed
                  THEN [k \in DOMAIN usage_sources \cup {source_key} |->
                           IF k = source_key THEN next ELSE usage_sources[k]]
                  ELSE usage_sources
            /\ usage_state' =
                  _merge_usage_identity(
                      IF changed THEN _normalize_aggregated_usage(added) ELSE added,
                      identity)

Accumulate ==
    \E source_id \in SourceIds, counts \in UsageCounts, identity \in UsageIdentities :
        _accumulate_usage_candidate(source_id, counts, identity)

UsageNext == Accumulate

----------------------------------------------------------------------------
(* scheduler/cron.py, api/scheduler_api.py (cron endpoints) *)

MaxTime == 15         \* last value of the clock, in seconds
MaxApiCalls == 2      \* requests to the cron endpoints
MaxRetention == 2     \* cron.failure_retention

ClockStep == 5
MinRetryBaseSeconds == 5
MinRetryMaxSeconds == 30
MinuteSeconds == 60

\* _compute_next_run returning None
NoNextRun == -1

\* Schedules a request can carry.  An `at` schedule is its timestamp, an
\* `every` schedule its number of seconds, a `cron` schedule the step n of the
\* expression "*/n * * * *".
AtTimes == {5}
EverySeconds == {1}
CronSteps == {1}
ScheduleInputs ==
    [schedule_type : {"at"}, schedule : AtTimes]
        \cup [schedule_type : {"every"}, schedule : EverySeconds]
        \cup [schedule_type : {"cron"}, schedule : CronSteps]

\* run_once returns a text ("ok") or raises
Outcomes == {"ok", "raise"}

CronJob(id, schedule_type, schedule, enabled, next_run_ts, failure_count) ==
    [id |-> id, schedule_type |-> schedule_type, schedule |-> schedule,
     enabled |-> enabled, next_run_ts |-> next_run_ts, failure_count |-> failure_count]

\* _parse_cron_field("*/n", 0, 59) and _cron_matches for "*/n * * * *"
_cron_matches(step, minute) == ((minute % 60) % step) = 0

_next_cron_time(step, after) ==
    LET cursor == (after \div MinuteSeconds) + 1
        m == CHOOSE k \in cursor .. cursor + 59 :
                 /\ _cron_matches(step, k)
                 /\ \A j \in cursor .. k - 1 : ~_cron_matches(step, j)
    IN  m * MinuteSeconds

_compute_next_run_rearmed(job, now_ts) ==
    CASE job.schedule_type = "at" -> now_ts + 5
      [] job.schedule_type = "every" -> now_ts + Max(5, job.schedule)
      [] job.schedule_type = "cron" -> _next_cron_time(job.schedule, now_ts)

_compute_next_run(job, now_ts) ==
    CASE job.schedule_type = "at" -> NoNextRun
      [] job.schedule_type = "every" -> now_ts + Max(5, job.schedule)
      [] job.schedule_type = "cron" -> _next_cron_time(job.schedule, now_ts)

create_job(id, schedule_type, schedule, now_ts) ==
    CronJob(id, schedule_type, schedule, TRUE,
            CASE schedule_type = "at" -> schedule
              [] schedule_type = "every" -> now_ts + Max(5, schedule)
              [] schedule_type = "cron" -> _next_cron_time(schedule, now_ts),
            0)

RECURSIVE IndexOfJob(_, _, _)
IndexOfJob(jobs, id, i) ==
    IF i > Len(jobs) THEN 0
    ELSE IF jobs[i].id = id THEN i ELSE IndexOfJob(jobs, id, i + 1)

upsert_job(jobs, job) ==
    LET i == IndexOfJob(jobs, job.id, 1)
    IN  IF i = 0 THEN Append(jobs, job) ELSE [jobs EXCEPT ![i] = job]

delete_job(jobs, id) == SelectSeq(jobs, LAMBDA j : j.id # id)

\* CronRuntimeConfig, the fields _run_job reads
CronRuntimeConfig(max_failures, retry_base_seconds, retry_max_seconds, failure_retention) ==
    [max_failures |-> max_failures, retry_base_seconds |-> retry_base_seconds,
     retry_max_seconds |-> retry_max_seconds, failure_retention |-> failure_retention]

backoff_uncapped(config, failure_count) ==
    config.retry_base_seconds * Pow2(Max(0, failure_count - 1))

\* _run_job: backoff = min(retry_max_seconds, retry_base_seconds * 2 ** max(0, n - 1))
backoff(config, failure_count) ==
    Min(config.retry_max_seconds,
        config.retry_base_seconds * Pow2(Max(0, failure_count - 1)))

\* _run_job, the job fields after run_once raised
_run_job_raised(job, now_ts, config) ==
    LET failure_count == job.failure_count + 1
    IN  [job EXCEPT !.failure_count = failure_count,
                    !.next_run_ts = now_ts + Max(5, backoff(config, failure_count)),
                    !.enabled = IF failure_count >= config.max_failures
                                THEN FALSE ELSE job.enabled]

\* _run_job, the job fields after run_once returned or raised
_run_job(job, now_ts, outcome, max_failures) ==
    IF outcome # "raise"
    THEN LET next_run == _compute_next_run(job, now_ts)
         IN  [job EXCEPT !.failure_count = 0,
                         !.enabled = IF next_run = NoNextRun THEN FALSE ELSE job.enabled,
                         !.next_run_ts = IF next_run = NoNextRun THEN 0 ELSE next_run]
    ELSE _run_job_raised(job, now_ts,
                         CronRuntimeConfig(max_failures, MinRetryBaseSeconds,
                                           MinRetryMaxSeconds, MaxRetention))

Row(file, job_id, status) == [file |-> file, job_id |-> job_id, status |-> status]

\* _run_job, the rows it writes to the scheduler's files, in order.  (The
\* messages it saves go to the session "__cron__:<id>", which is not a
\* scheduler file.)
RowsFor_both(job, outcome) ==
    CASE outcome = "ok" -> << Row("runs", job.id, "ok") >>
      [] outcome = "raise" -> << Row("runs", job.id, "ok"),
                                 Row("failures", job.id, "error") >>

RowsFor(job, outcome) ==
    CASE outcome = "ok" -> << Row("runs", job.id, "ok") >>
      [] outcome = "raise" -> << Row("failures", job.id, "error") >>

RowsOf(rows, file) == SelectSeq(rows, LAMBDA r : r.file = file)

\* The two .jsonl files are kept as their numbers of rows.
\* _trim_failures
_trim_failures(nrows) ==
    LET limit == Max(1, MaxRetention)
    IN  IF nrows <= limit THEN nrows ELSE limit

\* _write_jsonl(runs_file, ...)
RunsAfter(rows) == cron_runs + Len(RowsOf(rows, "runs"))

\* _write_jsonl(failures_file, ...) and _trim_failures
FailuresAfter(rows) ==
    IF RowsOf(rows, "failures") = << >> THEN cron_failures
    ELSE _trim_failures(cron_failures + Len(RowsOf(rows, "failures")))

IsDue(job, now_ts) == job.enabled /\ job.next_run_ts <= now_ts

RECURSIVE NextDue(_, _, _)
NextDue(jobs, from, now_ts) ==
    IF from > Len(jobs) THEN 0
    ELSE IF IsDue(jobs[from], now_ts) THEN from ELSE NextDue(jobs, from + 1, now_ts)

DueIds(jobs, now_ts) ==
    LET due == SelectSeq(jobs, LAMBDA j : IsDue(j, now_ts))
    IN  [i \in 1 .. Len(due) |-> due[i].id]

\* What tick_once did with a job since an API request last stored the job:
\* how many times it executed it (counted up to 2), whether one of these
\* executions succeeded, and whether it executed the job after that.
NotFired == [n |-> 0, ok |-> FALSE, after_ok |-> FALSE]

Fired(f, outcome) ==
    [n |-> Min(f.n + 1, 2), ok |-> f.ok \/ outcome = "ok", after_ok |-> f.after_ok \/ f.ok]

IdleTick ==
    [active |-> FALSE, jobs |-> << >>, idx |-> 0, now_ts |-> 0, due |-> << >>,
     written |-> << >>, saves |-> 0, ran |-> FALSE, api |-> << >>]

\* cron_tick.api: the jobs file changes API requests made while the latest
\* tick was between its load and its save, as long as no request has changed
\* the file since that save.  `job` is what the request stored; a delete has
\* only the id.
ApiChange(op, job) ==
    IF cron_tick.active
    THEN [cron_tick EXCEPT !.api = Append(@, [op |-> op, job |-> job])]
    ELSE [cron_tick EXCEPT !.api = << >>]

\* uuid4 values
JobIds == {"j1", "j2"}

CronConfigs == [max_failures : {1, 2}, shared : BOOLEAN]

CronInit ==
    /\ cron_cfg \in CronConfigs
    /\ cron_jobs = << >>
    /\ cron_runs = 0
    /\ cron_failures = 0
    /\ cron_now = 0
    /\ cron_lock = "free"
    /\ cron_tick = IdleTick
    /\ cron_reqs = << >>
    /\ cron_fired = [id \in JobIds |-> NotFired]
    /\ cron_used = {}
    /\ cron_calls = 0

CronIdle ==
    /\ cron_cfg = [max_failures |-> 1, shared |-> TRUE]
    /\ cron_jobs = << >>
    /\ cron_runs = 0
    /\ cron_failures = 0
    /\ cron_now = 0
    /\ cron_lock = "free"
    /\ cron_tick = IdleTick
    /\ cron_reqs = << >>
    /\ cron_fired = [id \in JobIds |-> NotFired]
    /\ cron_used = {}
    /\ cron_calls = 0

\* time passes
ClockAdvance ==
    /\ cron_now + ClockStep <= MaxTime
    /\ cron_now' = cron_now + ClockStep
    /\ UNCHANGED <<cron_cfg, cron_jobs, cron_runs, cron_failures, cron_lock, cron_tick,
                   cron_reqs, cron_fired, cron_used, cron_calls>>

\* POST /scheduler/cron/jobs
create_cron_job(id, s, enabled) ==
    /\ cron_calls < MaxApiCalls
    /\ id \notin cron_used
    /\ LET job == create_job(id, s.schedule_type, s.schedule, cron_now)
           stored == upsert_job(cron_jobs, job)
           disabled == [job EXCEPT !.enabled = FALSE, !.next_run_ts = 0]
       IN  /\ cron_jobs' = IF enabled THEN stored ELSE upsert_job(stored, disabled)
           /\ cron_tick' = ApiChange("create", IF enabled THEN job ELSE disabled)
    /\ cron_used' = cron_used \cup {id}
    /\ cron_calls' = cron_calls + 1
    /\ UNCHANGED <<cron_cfg, cron_runs, cron_failures, cron_now, cron_lock,
                   cron_reqs, cron_fired>>

\* PUT /scheduler/cron/jobs/{job_id}; request.schedule_type and request.schedule
\* are given together (set_schedule) or not at all, request.enabled is "None",
\* "true" or "false"
update_cron_job(job_id, set_schedule, s, enabled) ==
    /\ cron_calls < MaxApiCalls
    /\ IndexOfJob(cron_jobs, job_id, 1) # 0
    /\ LET current == cron_jobs[IndexOfJob(cron_jobs, job_id, 1)]
           next_type == IF set_schedule THEN s.schedule_type ELSE current.schedule_type
           next_schedule == IF set_schedule THEN s.schedule ELSE current.schedule
           next_enabled == IF enabled = NoneVal THEN current.enabled ELSE enabled = "true"
           refreshed == create_job(job_id, next_type, next_schedule, cron_now)
           c1 == IF next_type # current.schedule_type \/ next_schedule # current.schedule
                 THEN [current EXCEPT !.schedule_type = refreshed.schedule_type,
                                      !.schedule = refreshed.schedule,
                                      !.next_run_ts = refreshed.next_run_ts]
                 ELSE current
           c2 == [c1 EXCEPT !.enabled = next_enabled]
           c3 == IF ~c2.enabled THEN [c2 EXCEPT !.next_run_ts = 0]
                 ELSE IF c2.next_run_ts <= 0
                      THEN [c2 EXCEPT !.next_run_ts =
                               create_job(job_id, c2.schedule_type, c2.schedule,
                                          cron_now).next_run_ts]
                      ELSE c2
       IN  /\ cron_jobs' = upsert_job(cron_jobs, c3)
           /\ cron_tick' = ApiChange("update", c3)
    /\ cron_fired' = [cron_fired EXCEPT ![job_id] = NotFired]
    /\ cron_calls' = cron_calls + 1
    /\ UNCHANGED <<cron_cfg, cron_runs, cron_failures, cron_now, cron_lock,
                   cron_reqs, cron_used>>

\* DELETE /scheduler/cron/jobs/{job_id}
delete_cron_job(job_id) ==
    /\ cron_calls < MaxApiCalls
    /\ IndexOfJob(cron_jobs, job_id, 1) # 0
    /\ cron_jobs' = delete_job(cron_jobs, job_id)
    /\ cron_tick' = ApiChange("delete", [id |-> job_id])
    /\ cron_calls' = cron_calls + 1
    /\ UNCHANGED <<cron_cfg, cron_runs, cron_failures, cron_now, cron_lock,
                   cron_reqs, cron_fired, cron_used>>

\* run_job_now up to its await of run_once.  With the shared scheduler the
\* request waits for the lock the background task uses; otherwise
\* _cron_scheduler built a scheduler, and so a lock, for this request alone.
RunJobNowBegin(job_id) ==
    /\ cron_calls < MaxApiCalls
    /\ cron_cfg.shared => cron_lock = "free"
    /\ IndexOfJob(cron_jobs, job_id, 1) # 0
    /\ cron_reqs' = Append(cron_reqs,
                           [target |-> cron_jobs[IndexOfJob(cron_jobs, job_id, 1)],
                            now_ts |-> cron_now])
    /\ cron_lock' = IF cron_cfg.shared THEN "api" ELSE cron_lock
    /\ cron_calls' = cron_calls + 1
    /\ UNCHANGED <<cron_cfg, cron_jobs, cron_runs, cron_failures, cron_now, cron_tick,
                   cron_fired, cron_used>>

\* run_job_now for a job id that is not stored: returns None
RunJobNowMissing(job_id) ==
    /\ cron_calls < MaxApiCalls
    /\ cron_cfg.shared => cron_lock = "free"
    /\ IndexOfJob(cron_jobs, job_id, 1) = 0
    /\ cron_calls' = cron_calls + 1
    /\ UNCHANGED <<cron_cfg, cron_jobs, cron_runs, cron_failures, cron_now, cron_lock,
                   cron_tick, cron_reqs, cron_fired, cron_used>>

\* run_job_now from the return of run_once: the rest of _run_job, upsert_job
RunJobNowFinish(i, outcome) ==
    /\ i \in 1 .. Len(cron_reqs)
    /\ LET req == cron_reqs[i]
           target == _run_job(req.target, req.now_ts, outcome, cron_cfg.max_failures)
           rows == RowsFor(req.target, outcome)
       IN  /\ cron_runs' = RunsAfter(rows)
           /\ cron_failures' = FailuresAfter(rows)
           /\ cron_jobs' = upsert_job(cron_jobs, target)
    /\ cron_reqs' = [k \in 1 .. Len(cron_reqs) - 1 |->
                        IF k < i THEN cron_reqs[k] ELSE cron_reqs[k + 1]]
    /\ cron_lock' = IF cron_cfg.shared THEN "free" ELSE cron_lock
    /\ cron_fired' = [cron_fired EXCEPT ![cron_reqs[i].target.id] = NotFired]
    /\ UNCHANGED <<cron_cfg, cron_now, cron_tick, cron_used, cron_calls>>

\* tick_once up to its first await: no stored job is due, the tick is over
TickIdle ==
    /\ ~cron_tick.active
    /\ cron_lock = "free"
    /\ NextDue(cron_jobs, 1, cron_now) = 0
    /\ cron_tick' = [IdleTick EXCEPT !.now_ts = cron_now, !.ran = TRUE]
    /\ UNCHANGED <<cron_cfg, cron_jobs, cron_runs, cron_failures, cron_now, cron_lock,
                   cron_reqs, cron_fired, cron_used, cron_calls>>

\* tick_once up to its first await: the first due job is handed to run_once
TickBegin ==
    /\ ~cron_tick.active
    /\ cron_lock = "free"
    /\ NextDue(cron_jobs, 1, cron_now) # 0
    /\ cron_tick' = [active |-> TRUE, jobs |-> cron_jobs,
                     idx |-> NextDue(cron_jobs, 1, cron_now), now_ts |-> cron_now,
                     due |-> DueIds(cron_jobs, cron_now), written |-> << >>,
                     saves |-> 0, ran |-> TRUE, api |-> << >>]
    /\ cron_lock' = "tick"
    /\ UNCHANGED <<cron_cfg, cron_jobs, cron_runs, cron_failures, cron_now, cron_reqs,
                   cron_fired, cron_used, cron_calls>>

\* tick_once from one return of run_once to the next await, or to its end
TickExec(outcome) ==
    /\ cron_tick.active
    /\ LET job == cron_tick.jobs[cron_tick.idx]
           jobs == [cron_tick.jobs EXCEPT ![cron_tick.idx] =
                       _run_job(job, cron_tick.now_ts, outcome, cron_cfg.max_failures)]
           rows == RowsFor(job, outcome)
           next == NextDue(jobs, cron_tick.idx + 1, cron_tick.now_ts)
       IN  /\ cron_runs' = RunsAfter(rows)
           /\ cron_failures' = FailuresAfter(rows)
           /\ cron_fired' = [cron_fired EXCEPT ![job.id] = Fired(@, outcome)]
           /\ IF next # 0
              THEN /\ cron_tick' = [cron_tick EXCEPT !.jobs = jobs, !.idx = next,
                                                     !.written = @ \o rows]
                   /\ UNCHANGED <<cron_jobs, cron_lock>>
              ELSE /\ cron_tick' = [cron_tick EXCEPT !.active = FALSE, !.jobs = jobs,
                                                     !.idx = 0, !.written = @ \o rows,
                                                     !.saves = @ + 1]
                   /\ cron_jobs' = jobs
                   /\ cron_lock' = "free"
    /\ UNCHANGED <<cron_cfg, cron_now, cron_reqs, cron_used, cron_calls>>

CronNext ==
    \/ ClockAdvance
    \/ \E id \in JobIds, s \in ScheduleInputs, enabled \in BOOLEAN :
            create_cron_job(id, s, enabled)
    \/ \E id \in JobIds, set_schedule \in BOOLEAN, s \in ScheduleInputs,
          enabled \in {NoneVal, "true", "false"} :
            update_cron_job(id, set_schedule, s, enabled)
    \/ \E id \in JobIds : delete_cron_job(id)
    \/ \E id \in JobIds : RunJobNowBegin(id)
    \/ \E id \in JobIds : RunJobNowMissing(id)
    \/ \E i \in 1 .. MaxApiCalls, outcome \in Outcomes : RunJobNowFinish(i, outcome)
    \/ TickIdle
    \/ TickBegin
    \/ \E outcome \in Outcomes : TickExec(outcome)

----------------------------------------------------------------------------
(* scheduler/cron.py, scheduler/heartbeat.py: start, stop and the task *)

MaxSpawns == 2        \* background tasks one scheduler creates

Schedulers == {"cron", "heartbeat"}

\* the last start() or stop() call of a scheduler: what it was, and what the
\* call found
LastCall(op, enabled, task) == [op |-> op, enabled |-> enabled, task |-> task]

NoCall == LastCall(NoneVal, FALSE, NoneVal)

\* what a tick that returns to run() has done: nothing (no due job, outside the
\* window, no prompt), an agent run that returned, an agent run that raised
TickOutcomes == {"idle", "ok", "agent_raised"}

\* sched_loop holds <<scheduler, fact>> for the current task of a scheduler:
\* "run_once_raised", a tick caught an exception of the agent run;
\* "load_raised", a tick raised while loading; "ran_disabled", a tick ran
\* the agent while config.enabled was false
LoopFacts(s) == {f[2] : f \in {g \in sched_loop : g[1] = s}}

LifeInit ==
    /\ sched_enabled \in [Schedulers -> BOOLEAN]
    /\ sched_task = [s \in Schedulers |-> NoneVal]
    /\ sched_stop_event = [s \in Schedulers |-> FALSE]
    /\ sched_stopping = [s \in Schedulers |-> FALSE]
    /\ sched_live = [s \in Schedulers |-> 0]
    /\ sched_spawned = [s \in Schedulers |-> 0]
    /\ sched_last = [s \in Schedulers |-> NoCall]
    /\ sched_loop = {}

LifeIdle ==
    /\ sched_enabled = [s \in Schedulers |-> FALSE]
    /\ sched_task = [s \in Schedulers |-> NoneVal]
    /\ sched_stop_event = [s \in Schedulers |-> FALSE]
    /\ sched_stopping = [s \in Schedulers |-> FALSE]
    /\ sched_live = [s \in Schedulers |-> 0]
    /\ sched_spawned = [s \in Schedulers |-> 0]
    /\ sched_last = [s \in Schedulers |-> NoCall]
    /\ sched_loop = {}

\* start(): `if self._task is not None or not self.config.enabled: return`
StartReturnsEarly_unguarded(s) == ~sched_enabled[s]

StartReturnsEarly(s) == sched_task[s] # NoneVal \/ ~sched_enabled[s]

\* start()
start(s) ==
    /\ sched_last' = [sched_last EXCEPT ![s] =
                         LastCall(IF StartReturnsEarly(s) THEN "start" ELSE "start_spawned",
                                  sched_enabled[s], sched_task[s])]
    /\ IF StartReturnsEarly(s)
       THEN UNCHANGED <<sched_task, sched_stop_event, sched_live, sched_spawned, sched_loop>>
       ELSE /\ sched_spawned[s] < MaxSpawns
            /\ sched_loop' = {f \in sched_loop : f[1] # s}
            /\ sched_stop_event' = [sched_stop_event EXCEPT ![s] = FALSE]
            /\ sched_task' = [sched_task EXCEPT ![s] = "running"]
            /\ sched_live' = [sched_live EXCEPT ![s] = @ + 1]
            /\ sched_spawned' = [sched_spawned EXCEPT ![s] = @ + 1]
    /\ UNCHANGED <<sched_enabled, sched_stopping>>

\* stop() up to `await self._task`.  Without a task it returns; awaiting a
\* task that has already ended with an exception raises that exception out of
\* stop(), which leaves _task as it is.
stop_begin(s) ==
    /\ ~sched_stopping[s]
    /\ CASE sched_task[s] = NoneVal ->
              /\ sched_last' = [sched_last EXCEPT ![s] =
                                   LastCall("stop_returned", sched_enabled[s], NoneVal)]
              /\ UNCHANGED <<sched_task, sched_stop_event, sched_stopping>>
         [] sched_task[s] = "finished" ->
              /\ sched_stop_event' = [sched_stop_event EXCEPT ![s] = TRUE]
              /\ sched_last' = [sched_last EXCEPT ![s] =
                                   LastCall("stop_raised", sched_enabled[s], "finished")]
              /\ UNCHANGED <<sched_task, sched_stopping>>
         [] sched_task[s] = "running" ->
              /\ sched_stop_event' = [sched_stop_event EXCEPT ![s] = TRUE]
              /\ sched_task' = [sched_task EXCEPT ![s] = "cancelling"]
              /\ sched_stopping' = [sched_stopping EXCEPT ![s] = TRUE]
              /\ sched_last' = [sched_last EXCEPT ![s] =
                                   LastCall("stop", sched_enabled[s], "running")]
    /\ UNCHANGED <<sched_enabled, sched_live, sched_spawned, sched_loop>>

\* run(): the cancelled task ends with CancelledError at its await
TaskCancelled(s) ==
    /\ sched_task[s] = "cancelling"
    /\ sched_task' = [sched_task EXCEPT ![s] = "finished"]
    /\ sched_live' = [sched_live EXCEPT ![s] = @ - 1]
    /\ UNCHANGED <<sched_enabled, sched_stop_event, sched_stopping, sched_spawned, sched_last,
                   sched_loop>>

\* run(): `await self.tick_once()` returns and the loop waits for the next
\* poll.  Neither run() nor the tick reads config.enabled.  An exception of
\* run_once is caught inside the tick (cron.py 367-394, heartbeat.py 177-186).
LoopTick(s, outcome) ==
    /\ sched_task[s] = "running"
    /\ sched_loop' = sched_loop
           \cup (IF outcome = "agent_raised" THEN {<<s, "run_once_raised">>} ELSE {})
           \cup (IF outcome # "idle" /\ ~sched_enabled[s]
                 THEN {<<s, "ran_disabled">>} ELSE {})
    /\ UNCHANGED <<sched_enabled, sched_task, sched_stop_event, sched_stopping, sched_live,
                   sched_spawned, sched_last>>

\* run(): a tick raises (a store file that cannot be read) and ends the task:
\* json.loads of cron_jobs.json in _load_jobs, or of the session file in
\* load_session_for_agent, which the tick calls outside its try block
TaskCrash(s) ==
    /\ sched_task[s] = "running"
    /\ sched_task' = [sched_task EXCEPT ![s] = "finished"]
    /\ sched_live' = [sched_live EXCEPT ![s] = @ - 1]
    /\ sched_loop' = sched_loop \cup {<<s, "load_raised">>}
    /\ UNCHANGED <<sched_enabled, sched_stop_event, sched_stopping, sched_spawned, sched_last>>

\* stop() from the end of the awaited task: `self._task = None`
stop_return(s) ==
    /\ sched_stopping[s]
    /\ sched_task[s] = "finished"
    /\ sched_task' = [sched_task EXCEPT ![s] = NoneVal]
    /\ sched_stopping' = [sched_stopping EXCEPT ![s] = FALSE]
    /\ sched_last' = [sched_last EXCEPT ![s] =
                         LastCall("stop_returned", sched_enabled[s], "finished")]
    /\ UNCHANGED <<sched_enabled, sched_stop_event, sched_live, sched_spawned, sched_loop>>

\* the scheduler's config.enabled is replaced (PUT /scheduler/heartbeat,
\* _cron_scheduler assigning the current runtime config)
ConfigUpdate(s, enabled) ==
    /\ sched_enabled[s] # enabled
    /\ sched_enabled' = [sched_enabled EXCEPT ![s] = enabled]
    /\ UNCHANGED <<sched_task, sched_stop_event, sched_stopping, sched_live, sched_spawned,
                   sched_last, sched_loop>>

LifeNext ==
    \E s \in Schedulers :
        \/ start(s)
        \/ stop_begin(s)
        \/ TaskCancelled(s)
        \/ \E outcome \in TickOutcomes : LoopTick(s, outcome)
        \/ TaskCrash(s)
        \/ stop_return(s)
        \/ \E enabled \in BOOLEAN : ConfigUpdate(s, enabled)

----------------------------------------------------------------------------
(* scheduler/heartbeat.py: one tick *)

MaxTicks == 2         \* heartbeat ticks
MaxPromptLen == 3     \* characters of workspace/HEARTBEAT.md

\* local hours a tick can fall on, and (active_start_hour, active_end_hour)
Hours == {8, 9, 21}
HbWindows == {<<9, 21>>, <<21, 9>>, <<9, 9>>}

PromptChars == {"#", "x", " ", "\n"}

RECURSIVE TextsUpTo(_)
TextsUpTo(n) ==
    IF n = 0 THEN {<< >>}
    ELSE LET shorter == TextsUpTo(n - 1)
         IN  shorter \cup {Append(t, c) : t \in shorter, c \in PromptChars}

\* workspace/HEARTBEAT.md: missing, or holding a text
PromptFiles ==
    {[exists |-> FALSE, text |-> << >>]}
        \cup {[exists |-> TRUE, text |-> t] : t \in TextsUpTo(MaxPromptLen)}

\* what run_once returns as result["text"], or "raise"
HbResults == {<<"H", "E", "A", "R", "T", "B", "E", "A", "T", "_", "O", "K">>,
              <<"x">>, << >>}

\* the built-in prompt of _read_prompt, a line of visible text
DefaultPrompt == <<"x">>

_is_in_active_window(start_hour, end_hour, hour) ==
    IF start_hour = end_hour THEN TRUE
    ELSE IF start_hour < end_hour THEN start_hour <= hour /\ hour < end_hour
    ELSE hour >= start_hour \/ hour < end_hour

_read_prompt(file) == IF ~file.exists THEN DefaultPrompt ELSE Strip(file.text)

\* str.splitlines() for "\n"
RECURSIVE SplitLines(_)
SplitLines(s) ==
    IF s = << >> THEN << >>
    ELSE IF \E i \in 1 .. Len(s) : s[i] = "\n"
         THEN LET i == CHOOSE k \in 1 .. Len(s) :
                           s[k] = "\n" /\ \A j \in 1 .. k - 1 : s[j] # "\n"
              IN  <<SubSeq(s, 1, i - 1)>> \o SplitLines(SubSeq(s, i + 1, Len(s)))
         ELSE <<s>>

\* "\n".join(lines)
RECURSIVE JoinLines(_)
JoinLines(lines) ==
    IF lines = << >> THEN << >>
    ELSE IF Len(lines) = 1 THEN lines[1]
    ELSE lines[1] \o <<"\n">> \o JoinLines(Tail(lines))

StripAll(lines) == [i \in 1 .. Len(lines) |-> Strip(lines[i])]

_normalize_prompt_keep_comments(raw_prompt) ==
    Strip(JoinLines(SelectSeq(StripAll(SplitLines(raw_prompt)),
                              LAMBDA line : line # << >>)))

_normalize_prompt(raw_prompt) ==
    Strip(JoinLines(SelectSeq(StripAll(SplitLines(raw_prompt)),
                              LAMBDA line : line # << >> /\ Head(line) # "#")))

NoTick == [hour |-> 0, file |-> [exists |-> FALSE, text |-> << >>], invoked |-> FALSE,
           over |-> FALSE]

HbInit ==
    /\ hb_window \in HbWindows
    /\ hb_rows = << >>
    /\ hb_saved = << >>
    /\ hb_ticks = 0
    /\ hb_tick = NoTick

HbIdle ==
    /\ hb_window = <<9, 21>>
    /\ hb_rows = << >>
    /\ hb_saved = << >>
    /\ hb_ticks = 0
    /\ hb_tick = NoTick

\* _tick_once up to its return or to its await of run_once
TickStart(hour, file) ==
    /\ hb_ticks < MaxTicks
    /\ hb_tick = NoTick \/ hb_tick.over
    /\ hb_ticks' = hb_ticks + 1
    /\ IF ~_is_in_active_window(hb_window[1], hb_window[2], hour)
       THEN /\ hb_rows' = Append(hb_rows, "skipped_outside_window")
            /\ hb_tick' = [hour |-> hour, file |-> file, invoked |-> FALSE, over |-> TRUE]
       ELSE IF _normalize_prompt(_read_prompt(file)) = << >>
       THEN /\ hb_rows' = Append(hb_rows, "skipped_no_prompt")
            /\ hb_tick' = [hour |-> hour, file |-> file, invoked |-> FALSE, over |-> TRUE]
       ELSE /\ hb_rows' = hb_rows
            /\ hb_tick' = [hour |-> hour, file |-> file, invoked |-> TRUE, over |-> FALSE]
    /\ UNCHANGED <<hb_window, hb_saved>>

\* _tick_once from the return of run_once
TickReturns(text) ==
    /\ hb_tick # NoTick
    /\ ~hb_tick.over
    /\ hb_saved' = IF Strip(text) = <<"H", "E", "A", "R", "T", "B", "E", "A", "T", "_", "O", "K">>
                   THEN hb_saved
                   ELSE hb_saved \o <<"user", "assistant">>
    /\ hb_rows' = Append(hb_rows, "ok")
    /\ hb_tick' = [hb_tick EXCEPT !.over = TRUE]
    /\ UNCHANGED <<hb_window, hb_ticks>>

\* _tick_once when run_once raises
TickRaises ==
    /\ hb_tick # NoTick
    /\ ~hb_tick.over
    /\ hb_rows' = Append(hb_rows, "error")
    /\ hb_tick' = [hb_tick EXCEPT !.over = TRUE]
    /\ UNCHANGED <<hb_window, hb_saved, hb_ticks>>

HbNext ==
    \/ \E hour \in Hours, file \in PromptFiles : TickStart(hour, file)
    \/ \E text \in HbResults : TickReturns(text)
    \/ TickRaises

----------------------------------------------------------------------------
(* tools/path_guard.py *)

MaxPathLen == 4       \* characters of candidate_path

PathChars == {"/", ".", "a", "s", " "}

RECURSIVE PathsUpTo(_)
PathsUpTo(n) ==
    IF n = 0 THEN {<< >>}
    ELSE LET shorter == PathsUpTo(n - 1)
         IN  shorter \cup {Append(t, c) : t \in shorter, c \in PathChars}

\* The file system: the workspace is the directory /w, /l is a symbolic link
\* to it, and the entry s of the workspace is absent, or a symbolic link to
\* /o outside the workspace, or a symbolic link to /w/a inside it.
\* A canonical path is the sequence of its components.
WorkspaceRoot == << <<"w">> >>
RootDirs == {<< <<"w">> >>, << <<"l">> >>}
Links == {NoneVal, "outside", "inside"}

LinkTarget(link) == IF link = "outside" THEN << <<"o">> >> ELSE << <<"w">>, <<"a">> >>

\* str.split("/")
RECURSIVE SplitSlash(_)
SplitSlash(s) ==
    IF \E i \in 1 .. Len(s) : s[i] = "/"
    THEN LET i == CHOOSE k \in 1 .. Len(s) :
                      s[k] = "/" /\ \A j \in 1 .. k - 1 : s[j] # "/"
         IN  <<SubSeq(s, 1, i - 1)>> \o SplitSlash(SubSeq(s, i + 1, Len(s)))
    ELSE <<s>>

\* Path(raw).is_absolute()
is_absolute(raw) == raw # << >> /\ Head(raw) = "/"

\* Path(raw).parts without the root: empty components and "." are dropped
parts(raw) == SelectSeq(SplitSlash(raw), LAMBDA p : p # << >> /\ p # <<".">>)

\* Path.resolve() of base / parts, base being canonical
RECURSIVE resolve(_, _, _)
resolve(base, ps, link) ==
    IF ps = << >> THEN base
    ELSE LET p == Head(ps)
             next == IF p = <<".", ".">>
                     THEN (IF base = << >> THEN base ELSE SubSeq(base, 1, Len(base) - 1))
                     ELSE IF base = WorkspaceRoot /\ p = <<"s">> /\ link # NoneVal
                     THEN LinkTarget(link)
                     ELSE Append(base, p)
         IN  resolve(next, Tail(ps), link)

\* root_dir.resolve()
resolve_root(root_dir) == IF root_dir = << <<"l">> >> THEN WorkspaceRoot ELSE root_dir

is_relative_to_any(candidate, root) == TRUE

is_relative_to(candidate, root) ==
    Len(candidate) >= Len(root) /\ SubSeq(candidate, 1, Len(root)) = root

InvalidPathError == [ok |-> FALSE, error |-> "InvalidPathError", path |-> << >>]

resolve_workspace_path(root_dir, candidate_path, link) ==
    LET raw == Strip(candidate_path)
        root == resolve_root(root_dir)
        candidate == resolve(root, parts(raw), link)
    IN  IF raw = << >> THEN InvalidPathError
        ELSE IF is_absolute(raw) THEN InvalidPathError
        ELSE IF \E i \in 1 .. Len(parts(raw)) : parts(raw)[i] = <<".", ".">>
        THEN InvalidPathError
        ELSE IF ~is_relative_to(candidate, root) THEN InvalidPathError
        ELSE [ok |-> TRUE, error |-> NoneVal, path |-> candidate]

NoResult == [ok |-> FALSE, error |-> NoneVal, path |-> << >>]

PathInit ==
    /\ pg_in \in [root_dir : RootDirs, candidate_path : PathsUpTo(MaxPathLen), link : Links]
    /\ pg_out = NoResult

PathIdle ==
    /\ pg_in = [root_dir |-> WorkspaceRoot, candidate_path |-> << >>, link |-> NoneVal]
    /\ pg_out = NoResult

Resolve ==
    /\ pg_out = NoResult
    /\ pg_out' = resolve_workspace_path(pg_in.root_dir, pg_in.candidate_path, pg_in.link)
    /\ UNCHANGED pg_in

PathNext == Resolve

----------------------------------------------------------------------------
(* graph/memory_indexer.py, graph/retrieval_store.py (domain "memory") *)

MaxIndexOps == 4      \* operations on the index
MaxExtraChars == 1    \* characters of the long memory text beyond one chunk
MaxClockMs == 2       \* last value of the millisecond clock

MinChunkSize == 64
SCHEMA_VERSION == 1

\* memory/MEMORY.md: absent or empty, a short text, a text longer than a chunk
TextOf(c, n) == [i \in 1 .. n |-> c]
MemoryTexts == {<< >>, TextOf("a", 1), TextOf("b", MinChunkSize + MaxExtraChars)}

\* retrieval.memory and retrieval.storage.engine of the effective config, and
\* the embedding provider of the secrets
IndexConfig(chunk_size, chunk_overlap, engine, provider) ==
    [chunk_size |-> chunk_size, chunk_overlap |-> chunk_overlap, engine |-> engine,
     embedding_provider |-> provider]

IndexConfigs ==
    {IndexConfig(1, 0, e, "openai") : e \in {"sqlite", "json"}}
        \cup {IndexConfig(MinChunkSize + 1, 0, e, "openai") : e \in {"sqlite", "json"}}
        \cup {IndexConfig(1, MinChunkSize, e, "google") : e \in {"sqlite", "json"}}

\* What the SQLite file allows during one call: everything, or opening it
\* raises, or replace_domain_index raises (its transaction is rolled back).
DbModes == {"ok", "open_fails", "write_fails"}

\* _sanitize_settings, the fields the index uses
_sanitize_settings(settings) ==
    [chunk_size |-> Max(MinChunkSize, settings.chunk_size),
     chunk_overlap |-> Max(0, settings.chunk_overlap)]

\* _chunk: text[first : first + size] for first in range(0, len(text), step)
RECURSIVE ChunksFrom(_, _, _, _)
ChunksFrom(text, first, size, step) ==
    IF first > Len(text) THEN << >>
    ELSE <<SubSeq(text, first, Min(Len(text), first + size - 1))>>
             \o ChunksFrom(text, first + step, size, step)

_chunk(text, size, overlap) == ChunksFrom(text, 1, size, Max(1, size - overlap))

\* _memory_digest: sha256 over the md5 of the text and the two chunk settings.
\* Two digests are equal exactly when the three inputs are (no collisions).
_memory_digest_timed(text, chunk_size, chunk_overlap) ==
    <<text, chunk_size, chunk_overlap, idx_now>>

_memory_digest(text, chunk_size, chunk_overlap) == <<text, chunk_size, chunk_overlap>>

\* A row of index_meta / the fields of index.json; None is the empty sequence
NoMeta == << >>

IndexMeta(digest, chunk_size, chunk_overlap, provider, updated_ms) ==
    [digest |-> digest, chunk_size |-> chunk_size, chunk_overlap |-> chunk_overlap,
     embedding_provider |-> provider, updated_ms |-> updated_ms,
     schema_version |-> SCHEMA_VERSION]

JsonPayload(digest, chunk_size, chunk_overlap, provider) ==
    [digest |-> digest, chunk_size |-> chunk_size, chunk_overlap |-> chunk_overlap,
     embedding_provider |-> provider]

\* The stores: SQLite (index_meta row and the chunk texts of the domain) and
\* storage/memory_index/index.json (payload and its chunks)
IndexStores(meta, rows, json, json_chunks) ==
    [meta |-> meta, rows |-> rows, json |-> json, json_chunks |-> json_chunks]

\* replace_domain_index: delete the rows of the domain, insert the chunks,
\* upsert index_meta with the time of the call
replace_domain_index(st, digest, chunk_size, chunk_overlap, provider, chunks, now_ms) ==
    [st EXCEPT !.meta = <<IndexMeta(digest, chunk_size, chunk_overlap, provider, now_ms)>>,
               !.rows = chunks]

\* the backend rebuild_index writes
RebuildTarget(cfg, db) == IF cfg.engine = "sqlite" /\ db = "ok" THEN "sqlite" ELSE "json"

\* rebuild_index
rebuild_index(st, text, cfg, db, now_ms) ==
    LET effective == _sanitize_settings(cfg)
        digest == _memory_digest(text, effective.chunk_size, effective.chunk_overlap)
        chunks == _chunk(text, effective.chunk_size, effective.chunk_overlap)
    IN  IF RebuildTarget(cfg, db) = "sqlite"
        THEN replace_domain_index(st, digest, effective.chunk_size, effective.chunk_overlap,
                                  cfg.embedding_provider, chunks, now_ms)
        ELSE [st EXCEPT !.json = <<JsonPayload(digest, effective.chunk_size,
                                               effective.chunk_overlap,
                                               cfg.embedding_provider)>>,
                        !.json_chunks = chunks]

\* _migrate_json_to_sqlite for a payload rebuild_index wrote
_migrate_json_to_sqlite(st, db, now_ms) ==
    LET payload == st.json[1]
    IN  IF db = "write_fails" THEN st
        ELSE replace_domain_index(st, payload.digest, Max(MinChunkSize, payload.chunk_size),
                                  Max(0, payload.chunk_overlap), payload.embedding_provider,
                                  st.json_chunks, now_ms)

MetaMatches_any(meta, digest) == meta # NoMeta

\* meta is not None and str(meta.get("digest", "")) == digest
MetaMatches(meta, digest) == meta # NoMeta /\ meta[1].digest = digest

\* _ensure_sqlite_index: the stores after it, and whether it returned a store
_ensure_sqlite_index(st, text, cfg, db, now_ms) ==
    LET settings == _sanitize_settings(cfg)
        digest == _memory_digest(text, settings.chunk_size, settings.chunk_overlap)
        migrated == IF st.meta = NoMeta /\ st.json # << >>
                    THEN _migrate_json_to_sqlite(st, db, now_ms) ELSE st
        rebuilt == IF MetaMatches(migrated.meta, digest) THEN migrated
                   ELSE rebuild_index(migrated, text, cfg, db, now_ms)
    IN  IF db = "open_fails" THEN [stores |-> st, store |-> FALSE]
        ELSE [stores |-> rebuilt, store |-> MetaMatches(rebuilt.meta, digest)]

\* _load_or_rebuild_index: the stores after it, and whether it returned the
\* payload of index.json
_load_or_rebuild_index(st, text, cfg, db, now_ms) ==
    LET settings == _sanitize_settings(cfg)
        digest == _memory_digest(text, settings.chunk_size, settings.chunk_overlap)
        rebuilt == rebuild_index(st, text, cfg, db, now_ms)
    IN  IF MetaMatches(st.json, digest) THEN [stores |-> st, payload |-> TRUE]
        ELSE [stores |-> rebuilt, payload |-> MetaMatches(rebuilt.json, digest)]

\* What a retrieve call served: the index it read, the digest stored with
\* that index, the chunks it scored, and the memory text and settings at the
\* time of the call
Served(index, stored, chunks, text, cfg) ==
    [index |-> index, stored |-> stored, chunks |-> chunks, text |-> text, cfg |-> cfg]

\* retrieve: `hits` says whether the query scores any chunk of the SQLite
\* index above zero
retrieve(st, text, cfg, db, hits, now_ms) ==
    LET ensured == IF cfg.engine = "sqlite"
                   THEN _ensure_sqlite_index(st, text, cfg, db, now_ms)
                   ELSE [stores |-> st, store |-> FALSE]
        s1 == ensured.stores
        loaded == _load_or_rebuild_index(s1, text, cfg, db, now_ms)
        s2 == loaded.stores
    IN  IF ensured.store /\ hits /\ s1.rows # << >>
        THEN [stores |-> s1, served |-> Served("sqlite", s1.meta[1].digest, s1.rows, text, cfg)]
        ELSE IF loaded.payload
        THEN [stores |-> s2, served |-> Served("json", s2.json[1].digest, s2.json_chunks, text, cfg)]
        ELSE [stores |-> s2, served |-> Served("none", << >>, << >>, text, cfg)]

\* ensure_storage
ensure_storage(st, cfg, db, now_ms) ==
    IF cfg.engine # "sqlite" \/ db = "open_fails" \/ st.meta # NoMeta \/ st.json = << >>
    THEN st
    ELSE _migrate_json_to_sqlite(st, db, now_ms)

\* The latest operation: its name, the stores before it, the backend it wrote
\* when it was a rebuild_index call, the backend the operation right before it
\* wrote when that was a rebuild_index call too, and what it served when it
\* was a retrieval
IndexCall(op, before, prev_wrote, wrote, served) ==
    [op |-> op, before |-> before, prev_wrote |-> prev_wrote, wrote |-> wrote,
     served |-> served]

NotServed == Served("none", << >>, << >>, << >>, IndexConfig(1, 0, "sqlite", "openai"))

NoIndexCall ==
    IndexCall("none", IndexStores(NoMeta, << >>, << >>, << >>), "none", "none", NotServed)

IndexInit ==
    /\ idx_text = << >>
    /\ idx_cfg \in IndexConfigs
    /\ idx_stores = IndexStores(NoMeta, << >>, << >>, << >>)
    /\ idx_now = 0
    /\ idx_last = NoIndexCall
    /\ idx_ops = 0

IndexIdle ==
    /\ idx_text = << >>
    /\ idx_cfg = NotServed.cfg
    /\ idx_stores = IndexStores(NoMeta, << >>, << >>, << >>)
    /\ idx_now = 0
    /\ idx_last = NoIndexCall
    /\ idx_ops = 0

\* time.time() moves on
IndexClock ==
    /\ idx_now < MaxClockMs
    /\ idx_now' = idx_now + 1
    /\ UNCHANGED <<idx_text, idx_cfg, idx_stores, idx_last, idx_ops>>

\* memory/MEMORY.md is written by a tool or by hand
WriteMemoryFile(text) ==
    /\ idx_ops < MaxIndexOps
    /\ text # idx_text
    /\ idx_text' = text
    /\ idx_last' = IndexCall("write", idx_stores, "none", "none", NotServed)
    /\ idx_ops' = idx_ops + 1
    /\ UNCHANGED <<idx_cfg, idx_stores, idx_now>>

\* the retrieval settings of the config change
ChangeIndexConfig(cfg) ==
    /\ idx_ops < MaxIndexOps
    /\ cfg # idx_cfg
    /\ idx_cfg' = cfg
    /\ idx_last' = IndexCall("config", idx_stores, "none", "none", NotServed)
    /\ idx_ops' = idx_ops + 1
    /\ UNCHANGED <<idx_text, idx_stores, idx_now>>

\* api/files.py save_file of memory/MEMORY.md and create_agent: rebuild_index
RebuildIndex(db) ==
    /\ idx_ops < MaxIndexOps
    /\ idx_stores' = rebuild_index(idx_stores, idx_text, idx_cfg, db, idx_now)
    /\ idx_last' = IndexCall("rebuild", idx_stores, idx_last.wrote,
                              RebuildTarget(idx_cfg, db), NotServed)
    /\ idx_ops' = idx_ops + 1
    /\ UNCHANGED <<idx_text, idx_cfg, idx_now>>

\* get_runtime: ensure_storage
EnsureStorage(db) ==
    /\ idx_ops < MaxIndexOps
    /\ idx_stores' = ensure_storage(idx_stores, idx_cfg, db, idx_now)
    /\ idx_last' = IndexCall("ensure", idx_stores, "none", "none", NotServed)
    /\ idx_ops' = idx_ops + 1
    /\ UNCHANGED <<idx_text, idx_cfg, idx_now>>

\* retrieve
Retrieve(db, hits) ==
    /\ idx_ops < MaxIndexOps
    /\ LET r == retrieve(idx_stores, idx_text, idx_cfg, db, hits, idx_now)
       IN  /\ idx_stores' = r.stores
           /\ idx_last' = IndexCall("retrieve", idx_stores, "none", "none", r.served)
    /\ idx_ops' = idx_ops + 1
    /\ UNCHANGED <<idx_text, idx_cfg, idx_now>>

IndexNext ==
    \/ IndexClock
    \/ \E text \in MemoryTexts : WriteMemoryFile(text)
    \/ \E cfg \in IndexConfigs : ChangeIndexConfig(cfg)
    \/ \E db \in DbModes : RebuildIndex(db)
    \/ \E db \in DbModes : EnsureStorage(db)
    \/ \E db \in DbModes, hits \in BOOLEAN : Retrieve(db, hits)

----------------------------------------------------------------------------
(* graph/agent.py (AgentManager), config.py, api/config_api.py: one agent    *)
(* other than "default", its workspace and its runtime configuration         *)

MaxAgentOps == 3      \* requests and file edits
MaxMtime == 1         \* last value of the file system clock

DefaultMaxSteps == 20
MinMaxSteps == 1

\* ---- config.py

\* The fields of RuntimeConfig the model keeps
ConfigFields == {"rag_mode", "max_steps", "max_retries"}

RuntimeConfig(rag_mode, steps, retries) ==
    [rag_mode |-> rag_mode, max_steps |-> steps, max_retries |-> retries]

\* A JSON object is a function from its keys; {} is the empty function.
EmptyJson == << >>

\* keys whose values are JSON objects
DictKeys == {"agent_runtime"}

\* dict.get(key, default)
Get(payload, key, default) == IF key \in DOMAIN payload THEN payload[key] ELSE default

\* config.json contents a person or a request may write
ConfigPayloads ==
    {EmptyJson, [rag_mode |-> TRUE], [agent_runtime |-> [max_steps |-> 7]]}

RECURSIVE _deep_merge(_, _)
_deep_merge(base, override) ==
    [key \in DOMAIN base \cup DOMAIN override |->
        IF key \notin DOMAIN override THEN base[key]
        ELSE IF key \in DictKeys /\ key \in DOMAIN base
        THEN _deep_merge(base[key], override[key])
        ELSE override[key]]

_runtime_to_payload(runtime) ==
    [rag_mode |-> runtime.rag_mode,
     agent_runtime |-> [max_steps |-> runtime.max_steps,
                        max_retries |-> runtime.max_retries]]

_runtime_from_payload(payload) ==
    LET agent_runtime == Get(payload, "agent_runtime", EmptyJson)
    IN  RuntimeConfig(Get(payload, "rag_mode", FALSE),
                      Max(MinMaxSteps, Get(agent_runtime, "max_steps", DefaultMaxSteps)),
                      Max(0, Get(agent_runtime, "max_retries", DefaultMaxRetries)))

\* A config.json file: absent (the empty sequence) or its payload and mtime_ns
NoFile == << >>

ConfigFile(payload, mtime_ns) == <<[payload |-> payload, mtime_ns |-> mtime_ns]>>

PayloadOf(file) == IF file = NoFile THEN EmptyJson ELSE file[1].payload

\* load_runtime_config
load_runtime_config(file) == _runtime_from_payload(PayloadOf(file))

\* load_effective_runtime_config
load_effective_runtime_config(global_file, agent_file) ==
    _runtime_from_payload(_deep_merge(PayloadOf(global_file), PayloadOf(agent_file)))

\* runtime_config_digest: sha256 of the canonical JSON of the payload; equal
\* exactly when the payloads are
runtime_config_digest(runtime) ==
    <<runtime.rag_mode, runtime.max_steps, runtime.max_retries>>

\* save_runtime_config_to_path
save_runtime_config_to_path(runtime, now_ns) == ConfigFile(_runtime_to_payload(runtime), now_ns)

\* ---- graph/agent.py: the workspace

\* Files of the agent's workspace root the model keeps; a text is the
\* sequence of its lines
WorkspacePaths ==
    {"workspace/IDENTITY.md", "memory/MEMORY.md", "MEMORY.md", "SKILLS_SNAPSHOT.md",
     "skills/s/SKILL.md"}

\* workspace-template/, and skills/ of the backend root
TemplateFiles ==
    [p \in {"workspace/IDENTITY.md", "memory/MEMORY.md"} |->
        IF p = "workspace/IDENTITY.md" THEN <<"# IDENTITY.md">>
        ELSE <<"# MEMORY", "", "- Keep this file concise.">>]

BaseSkillFiles == [p \in {"skills/s/SKILL.md"} |-> <<"upstream-skill">>]

DefaultSnapshot == <<"<available_skills>", "</available_skills>">>

\* SKILLS_SNAPSHOT.md of the backend root: absent or written by the scanner
BaseSnapshots ==
    {NoFile, << <<"<available_skills>", "<skill>s</skill>", "</available_skills>">> >>}

\* Texts a person or a tool may write to a workspace file
UserTexts ==
    [p \in WorkspacePaths |->
        IF p = "memory/MEMORY.md"
        THEN {<<"">>, <<"# memory">>, <<"# MEMORY", "- likes tea">>}
        ELSE IF p = "MEMORY.md" THEN {<<"old notes">>}
        ELSE {<<"custom">>}]

\* line.strip().lower() of the lines the model writes
StripLower(line) ==
    IF line = "# MEMORY" THEN "# memory"
    ELSE IF line = "- Keep this file concise." THEN "- keep this file concise."
    ELSE line

\* lines = [line.strip() for line in content.splitlines() if line.strip()]
NonBlankLines(content) == SelectSeq(content, LAMBDA line : StripLower(line) # "")

\* any(line.lower().startswith(prefix) for prefix in placeholder_prefixes)
StartsWithPlaceholderPrefix(line) ==
    StripLower(line) \in {"- keep this file concise.",
                          "- store stable preferences and long-lived context only"}

_is_memory_placeholder(content) ==
    LET lines == NonBlankLines(content)
    IN  IF lines = << >> THEN TRUE
        ELSE IF StripLower(lines[1]) # "# memory" THEN FALSE
        ELSE IF Len(lines) = 1 THEN TRUE
        ELSE \A i \in 2 .. Len(lines) : StartsWithPlaceholderPrefix(lines[i])

_copy_tree_overwriting(source, files) ==
    [p \in DOMAIN files |-> IF p \in DOMAIN source THEN <<source[p]>> ELSE files[p]]

\* _copy_tree_if_missing
_copy_tree_if_missing(source, files) ==
    [p \in DOMAIN files |->
        IF p \in DOMAIN source /\ files[p] = NoFile THEN <<source[p]>> ELSE files[p]]

\* _migrate_legacy_root_memory
_migrate_legacy_root_memory(files) ==
    LET legacy == files["MEMORY.md"]
        canonical == files["memory/MEMORY.md"]
        canonical_text == IF canonical = NoFile THEN << >> ELSE canonical[1]
    IN  IF legacy = NoFile THEN files
        ELSE IF NonBlankLines(legacy[1]) = << >> THEN files
        ELSE IF NonBlankLines(canonical_text) # << >> /\ ~_is_memory_placeholder(canonical_text)
        THEN files
        ELSE [files EXCEPT !["memory/MEMORY.md"] = <<legacy[1]>>]

\* _sync_skills_snapshot
_sync_skills_snapshot(base_snapshot, files) ==
    IF base_snapshot # NoFile
    THEN [files EXCEPT !["SKILLS_SNAPSHOT.md"] = <<base_snapshot[1]>>]
    ELSE IF files["SKILLS_SNAPSHOT.md"] = NoFile
    THEN [files EXCEPT !["SKILLS_SNAPSHOT.md"] = <<DefaultSnapshot>>]
    ELSE files

\* _copy_text_if_missing(base_dir / "config.json", root / "config.json", "{}\n")
SeedAgentConfig(global_file, agent_file, now_ns) ==
    IF agent_file # NoFile THEN agent_file
    ELSE ConfigFile(PayloadOf(global_file), now_ns)

\* The state get_runtime works on
AgentWorld(global_file, agent_file, files, base_snapshot, runtime, objs, now_ns) ==
    [global_file |-> global_file, agent_file |-> agent_file, files |-> files,
     base_snapshot |-> base_snapshot, runtime |-> runtime, objs |-> objs, now_ns |-> now_ns]

\* _ensure_workspace for an agent other than "default"
_ensure_workspace(w) ==
    LET seeded == _copy_tree_if_missing(TemplateFiles, w.files)
        migrated == _migrate_legacy_root_memory(seeded)
        skills == _copy_tree_if_missing(BaseSkillFiles, migrated)
        snapshot == _sync_skills_snapshot(w.base_snapshot, skills)
    IN  [w EXCEPT !.files = snapshot,
                  !.agent_file = SeedAgentConfig(w.global_file, w.agent_file, w.now_ns)]

\* _config_mtime_ns
_config_mtime_ns(file) == IF file = NoFile THEN -1 ELSE file[1].mtime_ns

\* AgentRuntime: the cached effective config (obj names the RuntimeConfig
\* object), its digest and the two stored mtimes; None is the empty sequence
NoRuntime == << >>

AgentRuntime(config, obj, digest, global_mtime_ns, agent_mtime_ns) ==
    <<[runtime_config |-> config, obj |-> obj, runtime_config_digest |-> digest,
       global_config_mtime_ns |-> global_mtime_ns, agent_config_mtime_ns |-> agent_mtime_ns]>>

\* _build_runtime
_build_runtime(w) ==
    LET e == _ensure_workspace(w)
        effective_runtime == load_effective_runtime_config(e.global_file, e.agent_file)
    IN  [e EXCEPT !.runtime = AgentRuntime(effective_runtime, w.objs + 1,
                                           runtime_config_digest(effective_runtime),
                                           _config_mtime_ns(e.global_file),
                                           _config_mtime_ns(e.agent_file)),
                  !.objs = w.objs + 1]

MtimesUnchanged_global_only(runtime, global_mtime, agent_mtime) ==
    runtime[1].global_config_mtime_ns = global_mtime

\* the test of _refresh_runtime_config; a sha256 digest is never empty
MtimesUnchanged(runtime, global_mtime, agent_mtime) ==
    /\ runtime[1].global_config_mtime_ns = global_mtime
    /\ runtime[1].agent_config_mtime_ns = agent_mtime

\* _refresh_runtime_config
_refresh_runtime_config(w) ==
    LET e == _ensure_workspace(w)
        global_mtime == _config_mtime_ns(e.global_file)
        agent_mtime == _config_mtime_ns(e.agent_file)
        effective_runtime == load_effective_runtime_config(e.global_file, e.agent_file)
    IN  IF MtimesUnchanged(w.runtime, global_mtime, agent_mtime) THEN e
        ELSE [e EXCEPT !.runtime = AgentRuntime(effective_runtime, w.objs + 1,
                                                runtime_config_digest(effective_runtime),
                                                global_mtime, agent_mtime),
                       !.objs = w.objs + 1]

\* get_runtime
get_runtime(w) == IF w.runtime = NoRuntime THEN _build_runtime(w) ELSE _refresh_runtime_config(w)

\* ---- api/config_api.py

\* PUT /config/runtime, up to the save
SaveRuntimeConfig(w, request) ==
    [get_runtime(w) EXCEPT
        !.agent_file = save_runtime_config_to_path(_runtime_from_payload(request), w.now_ns)]

\* PUT /config/runtime
set_runtime_config(w, request) == get_runtime(SaveRuntimeConfig(w, request))

\* PUT /config/rag-mode, up to the save
SaveRagMode(w, enabled) ==
    LET located == get_runtime(w)
        runtime == [load_runtime_config(located.agent_file) EXCEPT !.rag_mode = enabled]
    IN  [located EXCEPT !.agent_file = save_runtime_config_to_path(runtime, w.now_ns)]

\* PUT /config/rag-mode
set_rag_mode(w, enabled) == get_runtime(SaveRagMode(w, enabled))

\* ---- the state machine

AgentNow == AgentWorld(ag_global, ag_config, ag_files, ag_base, ag_runtime, ag_objs, ag_clock)

\* The latest operation: its name; for a handler that ends with get_runtime,
\* the state right before that call, whether the runtime was cached and whether
\* a stored mtime differed from the file's (read after the workspace was
\* ensured); and whether the operation before it was get_runtime
AgentCall(op, before, cached, changed, prev_get) ==
    [op |-> op, before |-> before, cached |-> cached, changed |-> changed,
     prev_get |-> prev_get]

NoAgentCall ==
    AgentCall("none",
              AgentWorld(NoFile, NoFile, [p \in WorkspacePaths |-> NoFile], NoFile,
                         NoRuntime, 0, 0),
              FALSE, FALSE, FALSE)

\* the record of a get_runtime call made on w
GetRuntimeCall(op, w) ==
    LET e == _ensure_workspace(w)
    IN  AgentCall(op, w, w.runtime # NoRuntime,
                  /\ w.runtime # NoRuntime
                  /\ \/ w.runtime[1].global_config_mtime_ns # _config_mtime_ns(e.global_file)
                     \/ w.runtime[1].agent_config_mtime_ns # _config_mtime_ns(e.agent_file),
                  ag_last.op = "get_runtime")

\* The fields the agent's config.json holds for a reason other than a
\* write-back persisting a value the agent left alone: `own` has the fields
\* copied from the backend's config.json when the file was seeded, the fields
\* a hand edit wrote, and the fields whose value a write-back changed; `done`
\* says whether a write-back has happened
WriteBack(done, own) == [done |-> done, own |-> own]

NoWriteBack == WriteBack(FALSE, {})

\* the fields a payload gives a value to
FieldsOf(payload) ==
    {f \in ConfigFields :
        \/ f \in DOMAIN payload
        \/ "agent_runtime" \in DOMAIN payload /\ f \in DOMAIN payload["agent_runtime"]}

\* the fields in which a written-back config differs from the effective
\* config the agent had before
ChangedFields(before, after) == {f \in ConfigFields : before[f] # after[f]}

\* the fields the seeding of config.json copies
SeededFields == IF ag_config = NoFile THEN FieldsOf(PayloadOf(ag_global)) ELSE {}

AgentCommit(w) ==
    /\ ag_config' = w.agent_file
    /\ ag_files' = w.files
    /\ ag_runtime' = w.runtime
    /\ ag_objs' = w.objs

AgentInit ==
    /\ ag_global \in {NoFile} \cup {ConfigFile(p, 0) : p \in ConfigPayloads}
    /\ ag_config = NoFile
    /\ ag_files = [p \in WorkspacePaths |-> NoFile]
    /\ ag_base \in BaseSnapshots
    /\ ag_runtime = NoRuntime
    /\ ag_objs = 0
    /\ ag_clock = 0
    /\ ag_writeback = NoWriteBack
    /\ ag_last = NoAgentCall
    /\ ag_ops = 0

AgentIdle ==
    /\ ag_global = NoFile
    /\ ag_config = NoFile
    /\ ag_files = [p \in WorkspacePaths |-> NoFile]
    /\ ag_base = NoFile
    /\ ag_runtime = NoRuntime
    /\ ag_objs = 0
    /\ ag_clock = 0
    /\ ag_writeback = NoWriteBack
    /\ ag_last = NoAgentCall
    /\ ag_ops = 0

\* the clock of the file system moves on
AgentClock ==
    /\ ag_clock < MaxMtime
    /\ ag_clock' = ag_clock + 1
    /\ UNCHANGED <<ag_global, ag_config, ag_files, ag_base, ag_runtime, ag_objs,
                   ag_writeback, ag_last, ag_ops>>

\* the backend's config.json is edited
WriteGlobalConfig(payload) ==
    /\ ag_ops < MaxAgentOps
    /\ PayloadOf(ag_global) # payload \/ ag_global = NoFile
    /\ ag_global' = ConfigFile(payload, ag_clock)
    /\ ag_last' = AgentCall("write_global", AgentNow, FALSE, FALSE, FALSE)
    /\ ag_ops' = ag_ops + 1
    /\ UNCHANGED <<ag_config, ag_files, ag_base, ag_runtime, ag_objs, ag_clock, ag_writeback>>

\* the agent's config.json is edited by hand
WriteAgentConfig(payload) ==
    /\ ag_ops < MaxAgentOps
    /\ PayloadOf(ag_config) # payload \/ ag_config = NoFile
    /\ ag_config' = ConfigFile(payload, ag_clock)
    /\ ag_last' = AgentCall("write_agent", AgentNow, FALSE, FALSE, FALSE)
    /\ ag_writeback' = [ag_writeback EXCEPT !.own = @ \cup FieldsOf(payload)]
    /\ ag_ops' = ag_ops + 1
    /\ UNCHANGED <<ag_global, ag_files, ag_base, ag_runtime, ag_objs, ag_clock>>

\* a file of the workspace is written by a person or a tool
WriteWorkspaceFile(path, text) ==
    /\ ag_ops < MaxAgentOps
    /\ ag_files[path] # <<text>>
    /\ ag_files' = [ag_files EXCEPT ![path] = <<text>>]
    /\ ag_last' = AgentCall("write_file", AgentNow, FALSE, FALSE, FALSE)
    /\ ag_ops' = ag_ops + 1
    /\ UNCHANGED <<ag_global, ag_config, ag_base, ag_runtime, ag_objs, ag_clock, ag_writeback>>

\* any request that resolves the agent
GetRuntime ==
    /\ ag_ops < MaxAgentOps
    /\ AgentCommit(get_runtime(AgentNow))
    /\ ag_last' = GetRuntimeCall("get_runtime", AgentNow)
    /\ ag_writeback' = [ag_writeback EXCEPT !.own = @ \cup SeededFields]
    /\ ag_ops' = ag_ops + 1
    /\ UNCHANGED <<ag_global, ag_base, ag_clock>>


SetRuntimeConfig(request) ==
    /\ ag_ops < MaxAgentOps
    /\ AgentCommit(set_runtime_config(AgentNow, request))
    /\ ag_last' = GetRuntimeCall("set_runtime_config", SaveRuntimeConfig(AgentNow, request))
    /\ ag_writeback' =
           WriteBack(TRUE, ag_writeback.own \cup SeededFields
                               \cup ChangedFields(
                                        get_runtime(AgentNow).runtime[1].runtime_config,
                                        _runtime_from_payload(request)))
    /\ ag_ops' = ag_ops + 1
    /\ UNCHANGED <<ag_global, ag_base, ag_clock>>

SetRagMode(enabled) ==
    /\ ag_ops < MaxAgentOps
    /\ AgentCommit(set_rag_mode(AgentNow, enabled))
    /\ ag_last' = GetRuntimeCall("set_rag_mode", SaveRagMode(AgentNow, enabled))
    /\ ag_writeback' =
           WriteBack(TRUE, ag_writeback.own \cup SeededFields
                               \cup (IF get_runtime(AgentNow).runtime[1].runtime_config.rag_mode
                                         # enabled
                                     THEN {"rag_mode"} ELSE {}))
    /\ ag_ops' = ag_ops + 1
    /\ UNCHANGED <<ag_global, ag_base, ag_clock>>

AgentNext ==
    \/ AgentClock
    \/ \E payload \in ConfigPayloads : WriteGlobalConfig(payload)
    \/ \E payload \in ConfigPayloads : WriteAgentConfig(payload)
    \/ \E path \in WorkspacePaths : \E text \in UserTexts[path] : WriteWorkspaceFile(path, text)
    \/ GetRuntime
    \/ \E request \in ConfigPayloads : SetRuntimeConfig(request)
    \/ \E enabled \in BOOLEAN : SetRagMode(enabled)

----------------------------------------------------------------------------
(* scheduler/cron.py: _run_job when run_once raises, under every            *)
(* configuration _runtime_from_payload can produce                          *)

MaxExecutions == 4    \* executions of the job
MaxRunClock == 3      \* clock steps

DefaultRetryBaseSeconds == 30

\* Values a config.json may give the four cron settings
RawCronSettings ==
    [max_failures : {0, 2}, retry_base_seconds : {1, DefaultRetryBaseSeconds},
     retry_max_seconds : {0, 40}, failure_retention : {0, 2}]

\* _runtime_from_payload, the cron section
cron_from_payload(raw) ==
    CronRuntimeConfig(Max(1, raw.max_failures),
                      Max(MinRetryBaseSeconds, raw.retry_base_seconds),
                      Max(MinRetryMaxSeconds, raw.retry_max_seconds),
                      Max(1, raw.failure_retention))

\* the row _run_job writes to cron_failures.jsonl
FailureRow(job, now_ts) ==
    [timestamp_ms |-> now_ts * 1000, job_id |-> job.id, status |-> "error",
     failure_count |-> job.failure_count, next_run_ts |-> job.next_run_ts,
     disabled |-> ~job.enabled]

\* rows[-limit:]
LastRows(rows, limit) ==
    IF Len(rows) <= limit THEN rows ELSE SubSeq(rows, Len(rows) - limit + 1, Len(rows))

_trim_failures_keep_all(rows, config) == rows

\* _trim_failures on the rows of the file
_trim_failures_rows(rows, config) ==
    LET limit == Max(1, config.failure_retention)
    IN  IF Len(rows) <= limit THEN rows ELSE LastRows(rows, limit)

\* the latest execution: the job and the file before it, the time it was
\* given, what run_once did, and the file after _write_jsonl
Execution(via, outcome, job, now_ts, file, written) ==
    [via |-> via, outcome |-> outcome, job |-> job, now_ts |-> now_ts, file |-> file,
     written |-> written]

NoExecution == Execution("none", "ok", CronJob("j1", "every", 1, TRUE, 0, 0), 0, << >>, << >>)

\* A job as create_cron_job stores it: enabled, or created with enabled=false
RunJobInit ==
    /\ rj_cfg \in {cron_from_payload(raw) : raw \in RawCronSettings}
    /\ \E enabled \in BOOLEAN :
           rj_job = IF enabled THEN create_job("j1", "every", 1, 0)
                    ELSE [create_job("j1", "every", 1, 0) EXCEPT !.enabled = FALSE,
                                                                 !.next_run_ts = 0]
    /\ rj_file = << >>
    /\ rj_now = 0
    /\ rj_last = NoExecution
    /\ rj_n = 0

RunJobIdle ==
    /\ rj_cfg = cron_from_payload([max_failures |-> 0, retry_base_seconds |-> 1,
                                   retry_max_seconds |-> 0, failure_retention |-> 0])
    /\ rj_job = create_job("j1", "every", 1, 0)
    /\ rj_file = << >>
    /\ rj_now = 0
    /\ rj_last = NoExecution
    /\ rj_n = 0

\* time passes
RunClock ==
    /\ rj_now < MaxRunClock * ClockStep
    /\ rj_now' = rj_now + ClockStep
    /\ UNCHANGED <<rj_cfg, rj_job, rj_file, rj_last, rj_n>>

\* _run_job, called by tick_once for a due job or by run_job_now for any job
RunJob(via, outcome) ==
    /\ rj_n < MaxExecutions
    /\ via = "tick_once" => IsDue(rj_job, rj_now)
    /\ LET job == IF outcome = "raise" THEN _run_job_raised(rj_job, rj_now, rj_cfg)
                  ELSE _run_job(rj_job, rj_now, outcome, rj_cfg.max_failures)
           written == IF outcome = "raise" THEN Append(rj_file, FailureRow(job, rj_now))
                      ELSE rj_file
       IN  /\ rj_job' = job
           /\ rj_file' = IF outcome = "raise" THEN _trim_failures_rows(written, rj_cfg)
                         ELSE rj_file
           /\ rj_last' = Execution(via, outcome, rj_job, rj_now, rj_file, written)
    /\ rj_n' = rj_n + 1
    /\ UNCHANGED <<rj_cfg, rj_now>>

RunJobNext ==
    \/ RunClock
    \/ \E via \in {"tick_once", "run_job_now"}, outcome \in Outcomes : RunJob(via, outcome)

----------------------------------------------------------------------------
(* graph/session_manager.py with the handlers that write one session:      *)
(* api/chat.py (_run_stream_task), api/compress.py, api/sessions.py.       *)
(* The handlers are coroutines of one event loop and the methods of        *)
(* SessionManager are synchronous, so each method call is one step and     *)
(* steps of different handlers interleave at the awaits.                   *)

MaxMessages == 4      \* save_message calls on the session
MaxArchives == 2      \* archive_session calls that find the session

\* api/compress.py: fewer messages are refused, and at least so many are
\* compressed
MinCompressMessages == 4

\* sessions/<id>.json or archived_sessions/<id>.json does not exist
Missing == [exists |-> FALSE]

_default_payload ==
    [exists |-> TRUE, title |-> "New Session", messages |-> << >>, live |-> NoLive,
     compressed_context |-> FALSE]

\* load_session(session_id) of an active session: a missing file is written
\* with the default payload
load_session(file) == IF ~file.exists THEN _default_payload ELSE file

\* save_message on the file; the content is the number of the message
SaveToFile(file, role, content) ==
    [load_session(file) EXCEPT !.messages = save_message(@, role, content, << >>)]

\* set_live_response on the file
SetLiveInFile(file, run_id) ==
    [load_session(file) EXCEPT !.live = set_live_response(run_id, << >>, << >>)]

\* clear_live_response on the file
ClearLiveInFile(file, run_id) ==
    [load_session(file) EXCEPT !.live = clear_live_response(@, run_id)]

\* update_title with a title that is not blank
update_title(file, title) == [load_session(file) EXCEPT !.title = title]

\* compress_history: how many messages go to sessions/archive
archive_count(file, n) == Min(Max(0, n), Len(load_session(file).messages))

\* compress_history with a summary that is not blank
compress_history(file, n) ==
    LET session == load_session(file)
    IN  [session EXCEPT !.messages = SubSeq(@, archive_count(file, n) + 1, Len(@)),
                        !.compressed_context = TRUE]

\* run_id of the chat run on the session
SessionRunId == <<1, 1>>

\* the numbers of the messages of a file
MessageIds(file) ==
    IF ~file.exists THEN {}
    ELSE {file.messages[i].content : i \in 1 .. Len(file.messages)}

\* sm_tasks, the handlers that are between two of their steps
RunTask(at, is_first_turn) == [handler |-> "chat", at |-> at, is_first_turn |-> is_first_turn]

CompressTask(n) == [handler |-> "compress", n |-> n]

TitleTask == [handler |-> "generate_title"]

TasksOf(handler) == {t \in sm_tasks : t.handler = handler}

\* a chat run on the session is in progress
RunInProgress == TasksOf("chat") # {}

\* sm_hist, the history of the session id: messages are numbered in the order
\* of their save_message calls; `compressed` are the messages in the files of
\* sessions/archive; `gone` tells that the session was archived or deleted
\* while the chat run was in progress and only the run has written since;
\* `others` tells that delete_session or restore_session has acted.
NoHistory ==
    [appended |-> 0, compressed |-> {}, archives |-> 0, gone |-> NoneVal, others |-> FALSE]

SessionInit ==
    /\ sm_active = Missing
    /\ sm_archived = Missing
    /\ sm_tasks = {}
    /\ sm_hist = NoHistory

SessionIdle ==
    /\ sm_active = Missing
    /\ sm_archived = Missing
    /\ sm_tasks = {}
    /\ sm_hist = NoHistory

\* a handler other than the chat run has written the active file
OtherWrote == [sm_hist EXCEPT !.gone = NoneVal]

\* POST /chat: chat() loads the session and _run_stream_task saves the user
\* message
chat ==
    /\ ~RunInProgress
    /\ sm_hist.appended < MaxMessages
    /\ sm_active' = SaveToFile(sm_active, "user", sm_hist.appended + 1)
    /\ sm_tasks' = sm_tasks
           \cup {RunTask("streaming", load_session(sm_active).messages = << >>)}
    /\ sm_hist' = [OtherWrote EXCEPT !.appended = @ + 1]
    /\ UNCHANGED sm_archived

\* _run_stream_task on run_start, token, tool_start, tool_end, new_response:
\* _persist_live_snapshot
RunLiveSnapshot ==
    /\ \E t \in TasksOf("chat") : t.at = "streaming"
    /\ sm_active' = SetLiveInFile(sm_active, SessionRunId)
    /\ UNCHANGED <<sm_archived, sm_tasks, sm_hist>>

\* _run_stream_task on done (or at the end of the stream): _persist_final_segments
\* with one segment, or with none
RunPersistFinal(has_segment) ==
    /\ \E t \in TasksOf("chat") : t.at = "streaming"
    /\ has_segment => sm_hist.appended < MaxMessages
    /\ sm_active' = IF has_segment
                    THEN SaveToFile(ClearLiveInFile(sm_active, SessionRunId), "assistant",
                                    sm_hist.appended + 1)
                    ELSE ClearLiveInFile(sm_active, SessionRunId)
    /\ sm_hist' = [sm_hist EXCEPT !.appended = @ + (IF has_segment THEN 1 ELSE 0)]
    /\ sm_tasks' = (sm_tasks \ TasksOf("chat"))
           \cup {RunTask("titling", TRUE) : t \in {u \in TasksOf("chat") : u.is_first_turn}}
    /\ UNCHANGED sm_archived

\* _run_stream_task after `await agent.generate_title`: update_title
RunUpdateTitle ==
    /\ \E t \in TasksOf("chat") : t.at = "titling"
    /\ sm_active' = update_title(sm_active, "t")
    /\ sm_tasks' = sm_tasks \ TasksOf("chat")
    /\ UNCHANGED <<sm_archived, sm_hist>>

\* _run_stream_task, `except Exception`: clear_live_response
RunFailed ==
    /\ \E t \in TasksOf("chat") : t.at = "streaming"
    /\ sm_active' = ClearLiveInFile(sm_active, SessionRunId)
    /\ sm_tasks' = sm_tasks \ TasksOf("chat")
    /\ UNCHANGED <<sm_archived, sm_hist>>

\* POST /sessions/{id}/archive with the active file present (otherwise 404)
archive_session ==
    /\ sm_active.exists
    /\ sm_hist.archives < MaxArchives
    /\ sm_archived' = load_session(sm_active)
    /\ sm_active' = Missing
    /\ sm_hist' = [sm_hist EXCEPT !.archives = @ + 1,
                      !.gone = IF RunInProgress THEN "archived" ELSE NoneVal]
    /\ UNCHANGED sm_tasks

\* POST /sessions/{id}/restore with the archived file present (otherwise 404)
restore_session ==
    /\ sm_archived.exists
    /\ sm_active' = sm_archived
    /\ sm_archived' = Missing
    /\ sm_hist' = [OtherWrote EXCEPT !.others = TRUE]
    /\ UNCHANGED sm_tasks

\* DELETE /sessions/{id}?archived=... with the file present (otherwise 404)
delete_session(archived) ==
    /\ IF archived
       THEN /\ sm_archived.exists
            /\ sm_archived' = Missing
            /\ sm_hist' = [sm_hist EXCEPT !.others = TRUE]
            /\ UNCHANGED sm_active
       ELSE /\ sm_active.exists
            /\ sm_active' = Missing
            /\ sm_hist' = [sm_hist EXCEPT !.others = TRUE,
                              !.gone = IF RunInProgress THEN "deleted" ELSE NoneVal]
            /\ UNCHANGED sm_archived
    /\ UNCHANGED sm_tasks

\* POST /sessions/{id}/compress up to `await summarize_messages`; with fewer
\* than four messages it answers 400 after load_session
compress_session ==
    /\ TasksOf("compress") = {}
    /\ LET messages == load_session(sm_active).messages
           n == Min(Max(MinCompressMessages, Len(messages) \div 2), Len(messages))
       IN  sm_tasks' = IF Len(messages) < MinCompressMessages THEN sm_tasks
                       ELSE sm_tasks \cup {CompressTask(n)}
    /\ sm_active' = load_session(sm_active)
    /\ sm_hist' = IF sm_active.exists THEN sm_hist ELSE OtherWrote
    /\ UNCHANGED sm_archived

\* POST /sessions/{id}/compress from the summary on: compress_history
CompressFinish ==
    /\ \E t \in TasksOf("compress") :
           LET session == load_session(sm_active)
               k == archive_count(sm_active, t.n)
               h == IF sm_active.exists THEN sm_hist ELSE OtherWrote
           IN  /\ sm_active' = compress_history(sm_active, t.n)
               /\ sm_hist' = [h EXCEPT !.compressed =
                                 @ \cup {session.messages[i].content : i \in 1 .. k}]
    /\ sm_tasks' = sm_tasks \ TasksOf("compress")
    /\ UNCHANGED sm_archived

\* POST /sessions/{id}/generate-title up to `await agent.generate_title`; a
\* session without a seed is answered 400 after load_session
generate_title ==
    /\ TitleTask \notin sm_tasks
    /\ LET session == load_session(sm_active)
       IN  sm_tasks' = IF session.messages # << >> \/ session.compressed_context
                       THEN sm_tasks \cup {TitleTask} ELSE sm_tasks
    /\ sm_active' = load_session(sm_active)
    /\ sm_hist' = IF sm_active.exists THEN sm_hist ELSE OtherWrote
    /\ UNCHANGED sm_archived

\* POST /sessions/{id}/generate-title from the title on: update_title
GenerateTitleFinish ==
    /\ TitleTask \in sm_tasks
    /\ sm_active' = update_title(sm_active, "t")
    /\ sm_tasks' = sm_tasks \ {TitleTask}
    /\ sm_hist' = IF sm_active.exists THEN sm_hist ELSE OtherWrote
    /\ UNCHANGED sm_archived

SessionNext ==
    \/ chat
    \/ RunLiveSnapshot
    \/ \E has_segment \in BOOLEAN : RunPersistFinal(has_segment)
    \/ RunUpdateTitle
    \/ RunFailed
    \/ archive_session
    \/ restore_session
    \/ \E archived \in BOOLEAN : delete_session(archived)
    \/ compress_session
    \/ CompressFinish
    \/ generate_title
    \/ GenerateTitleFinish

----------------------------------------------------------------------------
SchedIdle == CronIdle /\ LifeIdle /\ HbIdle /\ PathIdle

StoreIdle == IndexIdle /\ AgentIdle /\ RunJobIdle /\ SessionIdle

----------------------------------------------------------------------------
(* Specifications *)

InitPolicy == PolicyInit /\ ToolsIdle /\ UsageIdle /\ ChatIdle /\ SchedIdle /\ StoreIdle

NextPolicy == PolicyNext /\ UNCHANGED <<storeVars, schedVars, toolVars, usageVars, chatVars>>

SpecPolicy == InitPolicy /\ [][NextPolicy]_vars

InitTools == ToolsInit /\ PolicyIdle /\ UsageIdle /\ ChatIdle /\ SchedIdle /\ StoreIdle

NextTools == ToolsNext /\ UNCHANGED <<storeVars, schedVars, policyVars, usageVars, chatVars>>

SpecTools == InitTools /\ [][NextTools]_vars

InitUsage == UsageInit /\ PolicyIdle /\ ToolsIdle /\ ChatIdle /\ SchedIdle /\ StoreIdle

NextUsage == UsageNext /\ UNCHANGED <<storeVars, schedVars, policyVars, toolVars, chatVars>>

SpecUsage == InitUsage /\ [][NextUsage]_vars

InitStream == StreamInit /\ PolicyIdle /\ ToolsIdle /\ UsageIdle /\ SchedIdle /\ StoreIdle

NextStream == StreamNext /\ UNCHANGED <<storeVars, schedVars, policyVars, toolVars, usageVars>>

SpecStream == InitStream /\ [][NextStream]_vars

InitTurn == StreamInit /\ PolicyIdle /\ ToolsIdle /\ UsageIdle /\ SchedIdle /\ StoreIdle

NextTurn == TurnNext /\ UNCHANGED <<storeVars, schedVars, policyVars, toolVars, usageVars>>

SpecTurn == InitTurn /\ [][NextTurn]_vars

InitRetry == RetryInit /\ PolicyIdle /\ ToolsIdle /\ UsageIdle /\ SchedIdle /\ StoreIdle

NextRetry == RetryNext /\ UNCHANGED <<storeVars, schedVars, policyVars, toolVars, usageVars>>

SpecRetry == InitRetry /\ [][NextRetry]_vars

InitAdmission == ChatIdle /\ PolicyIdle /\ ToolsIdle /\ UsageIdle /\ SchedIdle /\ StoreIdle

NextAdmission == AdmissionNext /\ UNCHANGED <<storeVars, schedVars, policyVars, toolVars, usageVars>>

SpecAdmission == InitAdmission /\ [][NextAdmission]_vars

InitCron ==
    CronInit /\ LifeIdle /\ HbIdle /\ PathIdle /\ PolicyIdle /\ ToolsIdle /\ UsageIdle /\ ChatIdle /\ StoreIdle

NextCron ==
    CronNext /\ UNCHANGED <<storeVars, policyVars, toolVars, usageVars, chatVars, lifeVars, hbVars, pathVars>>

SpecCron == InitCron /\ [][NextCron]_vars

InitLifecycle ==
    LifeInit /\ CronIdle /\ HbIdle /\ PathIdle /\ PolicyIdle /\ ToolsIdle /\ UsageIdle /\ ChatIdle /\ StoreIdle

NextLifecycle ==
    LifeNext /\ UNCHANGED <<storeVars, policyVars, toolVars, usageVars, chatVars, cronVars, hbVars, pathVars>>

SpecLifecycle == InitLifecycle /\ [][NextLifecycle]_vars

InitHeartbeat ==
    HbInit /\ CronIdle /\ LifeIdle /\ PathIdle /\ PolicyIdle /\ ToolsIdle /\ UsageIdle /\ ChatIdle /\ StoreIdle

NextHeartbeat ==
    HbNext /\ UNCHANGED <<storeVars, policyVars, toolVars, usageVars, chatVars, cronVars, lifeVars, pathVars>>

SpecHeartbeat == InitHeartbeat /\ [][NextHeartbeat]_vars

InitPathGuard ==
    PathInit /\ CronIdle /\ LifeIdle /\ HbIdle /\ PolicyIdle /\ ToolsIdle /\ UsageIdle /\ ChatIdle /\ StoreIdle

NextPathGuard ==
    PathNext /\ UNCHANGED <<storeVars, policyVars, toolVars, usageVars, chatVars, cronVars, lifeVars, hbVars>>

SpecPathGuard == InitPathGuard /\ [][NextPathGuard]_vars

InitIndex == IndexInit /\ SessionIdle /\ AgentIdle /\ RunJobIdle /\ SchedIdle /\ PolicyIdle /\ ToolsIdle /\ UsageIdle /\ ChatIdle

NextIndex ==
    IndexNext /\ UNCHANGED <<policyVars, toolVars, usageVars, chatVars, schedVars, agentVars, runJobVars, sessionVars>>

SpecIndex == InitIndex /\ [][NextIndex]_vars

InitAgent == AgentInit /\ SessionIdle /\ IndexIdle /\ RunJobIdle /\ SchedIdle /\ PolicyIdle /\ ToolsIdle /\ UsageIdle /\ ChatIdle

NextAgent ==
    AgentNext /\ UNCHANGED <<policyVars, toolVars, usageVars, chatVars, schedVars, indexVars, runJobVars, sessionVars>>

SpecAgent == InitAgent /\ [][NextAgent]_vars

InitRunJob ==
    RunJobInit /\ SessionIdle /\ IndexIdle /\ AgentIdle /\ SchedIdle /\ PolicyIdle /\ ToolsIdle /\ UsageIdle /\ ChatIdle

NextRunJob ==
    RunJobNext /\ UNCHANGED <<policyVars, toolVars, usageVars, chatVars, schedVars, indexVars, agentVars, sessionVars>>

SpecRunJob == InitRunJob /\ [][NextRunJob]_vars

InitSession ==
    SessionInit /\ IndexIdle /\ AgentIdle /\ RunJobIdle /\ SchedIdle /\ PolicyIdle /\ ToolsIdle /\ UsageIdle /\ ChatIdle

NextSession ==
    SessionNext /\ UNCHANGED <<policyVars, toolVars, usageVars, chatVars, schedVars, indexVars, agentVars, runJobVars>>

SpecSession == InitSession /\ [][NextSession]_vars

----------------------------------------------------------------------------
(* Claims about the tool sandbox *)

\* The ceilings as the specification states them.
StatedCeiling(trigger_type) == IF trigger_type = "chat" THEN 3 ELSE 0

AboveStatedCeiling ==
    /\ pol_out # NoDecision
    /\ pol_in.trigger_type \in {"chat", "heartbeat", "cron"}
    /\ pol_in.permission_level > StatedCeiling(pol_in.trigger_type)

\* C1: for every tool and every trigger type (chat, heartbeat, cron), a call
\* whose permission level is above the trigger's ceiling (chat L3, heartbeat
\* L0, cron L0) is denied, unless the tool's name is in the explicit-enable
\* list in force for the call, in which case it is allowed.
Thm_C1_DeniedAboveCeiling ==
    AboveStatedCeiling =>
        (pol_out.allowed = FALSE
            <=> pol_in.tool_name \notin EnabledSet(pol_in.explicit_enabled_tools))

Wit_C1_DeniedAboveCeiling ==
    /\ AboveStatedCeiling
    /\ pol_in.trigger_type = "cron"
    /\ pol_in.tool_name = "terminal"
    /\ pol_in.permission_level = L3_SYSTEM
    /\ pol_in.explicit_enabled_tools = {"read_file"}
    /\ pol_out.allowed = FALSE

\* The calls of one key that passed the policy check, in call order.
PastPolicy(key) == SelectSeq(calls[key], LAMBDA e : e.allowed)

NeverSucceeded(h) == \A i \in 1..Len(h) : h[i].code # "OK"

\* C2: under one failure key (run scope, tool, arguments), as long as the tool
\* has not succeeded, the first repeat_identical_failure_limit calls invoke
\* the tool and return its failure, and every later call returns
\* E_POLICY_DENIED ("retry blocked") without invoking the tool; with the
\* default limit 2 a tool returning E_EXEC yields E_EXEC, E_EXEC,
\* E_POLICY_DENIED.
Thm_C2_RetryGuard ==
    \A key \in FailureKeys :
        LET h == PastPolicy(key) IN
        NeverSucceeded(h) =>
            /\ Cardinality({i \in 1..Len(h) : h[i].invoked})
                   <= repeat_identical_failure_limit
            /\ \A i \in 1..Len(h) :
                   IF i <= repeat_identical_failure_limit
                   THEN h[i].invoked /\ h[i].code \in {"E_EXEC", "E_INTERNAL"}
                   ELSE /\ ~h[i].invoked
                        /\ h[i].code = "E_POLICY_DENIED"
                        /\ h[i].message = "retry blocked"

Wit_C2_RetryGuard ==
    /\ repeat_identical_failure_limit = 2
    /\ \E key \in FailureKeys :
           LET h == PastPolicy(key) IN
           /\ Len(h) = 3
           /\ h[1].code = "E_EXEC" /\ h[1].invoked
           /\ h[2].code = "E_EXEC" /\ h[2].invoked
           /\ h[3].code = "E_POLICY_DENIED" /\ ~h[3].invoked

----------------------------------------------------------------------------
(* Claims about usage aggregation *)

\* Sum, over the source ids, of the largest value observed for the field.
SumOfMaxima(field) ==
    SumOver(SourceIds, [s \in SourceIds |-> usage_observed[s][field]])

\* Fields that _normalize_aggregated_usage may rewrite.
NormalizedFields == {"input_tokens", "input_uncached_tokens", "total_tokens"}

\* C10 as stated: every numeric field of the running total equals the sum
\* over source ids of the largest value observed for that source.
Cex_C10_AllFieldsSumOfMaxima ==
    \A f \in UsageNumericFields : usage_state[f] = SumOfMaxima(f)

\* C10 as amended: every numeric field that normalisation does not rewrite
\* equals the sum over source ids of the largest value observed for that
\* source; input_tokens and total_tokens are at least that sum.
Thm_C10_SumOfMaxima ==
    /\ \A f \in UsageNumericFields \ NormalizedFields : usage_state[f] = SumOfMaxima(f)
    /\ usage_state["input_tokens"] >= SumOfMaxima("input_tokens")
    /\ usage_state["total_tokens"] >= SumOfMaxima("total_tokens")

Wit_C10_SumOfMaxima ==
    /\ naccum = 3
    /\ DOMAIN usage_sources = SourceIds
    /\ usage_sources[<<"a">>]["output_tokens"] = 2
    /\ usage_sources[<<"b">>]["output_tokens"] = 1
    /\ usage_state["output_tokens"] = 3
    /\ usage_state["total_tokens"] > SumOfMaxima("total_tokens")

\* C11 as stated: a replay of the latest (source_id, candidate) leaves every
\* numeric total unchanged, and a candidate under a source id not seen before
\* is added in full to every numeric total.
Cex_C11_ReplayAndNewSource ==
    naccum > 0 =>
        /\ usage_last.replay =>
              \A f \in UsageNumericFields : usage_state[f] = usage_last.before[f]
        /\ usage_last.fresh =>
              \A f \in UsageNumericFields :
                  usage_state[f] = usage_last.before[f] + usage_last.counts[f]

\* C11 as amended: a replay leaves every numeric total unchanged; a candidate
\* under a source id not seen before adds its full count to every field that
\* normalisation does not rewrite, and input_tokens and total_tokens grow by
\* at least the candidate's count.
Thm_C11_ReplayAndNewSource ==
    naccum > 0 =>
        /\ usage_last.replay =>
              /\ \A f \in UsageNumericFields : usage_state[f] = usage_last.before[f]
              /\ ~usage_last.changed
        /\ usage_last.fresh =>
              /\ \A f \in UsageNumericFields \ NormalizedFields :
                    usage_state[f] = usage_last.before[f] + usage_last.counts[f]
              /\ \A f \in {"input_tokens", "total_tokens"} :
                    usage_state[f] >= usage_last.before[f] + usage_last.counts[f]

Wit_C11_ReplayAndNewSource ==
    /\ naccum = 3
    /\ DOMAIN usage_sources = SourceIds
    /\ usage_last.fresh
    /\ usage_last.source_id = <<"b">>
    /\ usage_last.counts = Usage(2, 1, 1, 0, 0, 0, 1, 0, 0, 3)
    /\ usage_sources[<<"a">>] = usage_last.counts
    /\ usage_state["output_tokens"] = 2
    /\ usage_state["total_tokens"] = 6

\* C12: after every accumulation step input_tokens covers its parts and
\* total_tokens covers input, output and tool input.
Cex_C12_UsageInequalities ==
    naccum > 0 =>
        /\ usage_state["input_tokens"] >=
              usage_state["input_uncached_tokens"] + usage_state["input_cache_read_tokens"]
                + usage_state["input_cache_write_tokens_5m"]
                + usage_state["input_cache_write_tokens_1h"]
                + usage_state["input_cache_write_tokens_unknown"]
        /\ usage_state["total_tokens"] >=
              usage_state["input_tokens"] + usage_state["output_tokens"]
                + usage_state["tool_input_tokens"]

(***************************************************************************)
(* Claims about the chat endpoint and the streamed run                     *)
(***************************************************************************)

Running(r) == runs[r].pc # "closed"

Closed(r) == runs[r].pc = "closed"

CountWhere(seq, Test(_)) == Cardinality({i \in 1..Len(seq) : Test(seq[i])})

IsUser(m) == m.role = "user"

IsTerminal(e) == e \in {"done", "error"}

IsContentEvent(e) == e \in {"token", "tool_start", "tool_end", "new_response"}

\* C3: while a run is active, a request carrying a different message is
\* answered with session_busy (and so starts nothing and saves nothing).
Cex_C3_DifferentMessageRejected ==
    \A i \in 1..Len(reqlog) :
        (reqlog[i].active /\ reqlog[i].message # reqlog[i].active_message)
            => reqlog[i].outcome = "session_busy"

\* C4: at most one producer task per key is running; a streaming request with
\* the identical message during an active run becomes a subscriber of that run,
\* and neither a second run nor a second user message comes of it.
Thm_C4_OneProducerPerKey ==
    /\ Cardinality({r \in 1..Len(runs) : Running(r)}) <= 1
    /\ active_run # 0 => Running(active_run)
    /\ \A r \in 1..Len(runs) : Running(r) => active_run = r
    /\ \A i \in 1..Len(reqlog) :
          (reqlog[i].stream /\ reqlog[i].active
                /\ reqlog[i].message = reqlog[i].active_message)
             => /\ reqlog[i].outcome = "attached"
                /\ runs[reqlog[i].run].message = reqlog[i].message
    /\ Len(runs) = CountWhere(reqlog, LAMBDA e : e.outcome = "started")
    /\ CountWhere(sess_messages, IsUser)
          = Cardinality({r \in 1..Len(runs) : runs[r].pc # "created"})
            + CountWhere(nonstream, LAMBDA n : ~n.pending)

Wit_C4_OneProducerPerKey ==
    \E i \in 1..Len(reqlog) :
        /\ reqlog[i].outcome = "attached"
        /\ reqlog[i].message = reqlog[i].active_message
        /\ Cardinality(runs[reqlog[i].run].subscribers) = 2
        /\ runs[reqlog[i].run].pc = "streaming"
        /\ CountWhere(sess_messages, IsUser) = 1

\* The history as a client reads it holds an entry marked streaming=true.
HasStreamingEntry ==
    LET history == with_live_response(sess_messages, sess_live) IN
    \E i \in 1..Len(history) : history[i].streaming

\* C5: a run whose client left after reading its first token still completes;
\* afterwards the session ends with the assistant message and its history has
\* no streaming=true entry.
Cex_C5_DisconnectStillCompletes ==
    \A i \in 1..Len(subs) :
        (subs[i].client = "left_after_token" /\ Closed(subs[i].run)
              /\ runs[subs[i].run].ended_by = "done")
           => /\ ~HasStreamingEntry
              /\ Strip(runs[subs[i].run].done_content) # << >>
                   => sess_messages[Len(sess_messages)].role = "assistant"

\* C6: the events of a run end with exactly one terminal event: nothing
\* content-like and no second terminal event follows done or error.
Thm_C6_OneTerminalEvent ==
    \A r \in 1..Len(runs) :
        LET p == runs[r].published IN
        /\ CountWhere(p, IsTerminal) <= 1
        /\ \A i, j \in 1..Len(p) :
              (i < j /\ IsTerminal(p[i])) => ~IsContentEvent(p[j])
        /\ Closed(r) => CountWhere(p, IsTerminal) = 1

Wit_C6_OneTerminalEvent ==
    \E r \in 1..Len(runs) :
        LET p == runs[r].published IN
        /\ Closed(r)
        /\ \E i, j, k \in 1..Len(p) :
              i < j /\ j < k /\ p[i] = "tool_end" /\ p[j] = "token" /\ p[k] = "done"
        /\ p[Len(p)] = "title"

\* C7: a token that follows a tool_end has a new_response between the two, and
\* no persisted segment holds text from both sides of a tool call.
Cex_C7_SegmentPerToolPhase ==
    \A r \in 1..Len(runs) :
        LET p == runs[r].published IN
        /\ \A i, j \in 1..Len(p) :
              (i < j /\ p[i] = "tool_end" /\ p[j] = "token")
                 => \E k \in (i + 1)..(j - 1) : p[k] = "new_response"
        /\ \A n \in 1..Len(runs[r].assistant_segments) :
              Cardinality(runs[r].assistant_segments[n].spans) <= 1

\* C8: a turn makes at most max_retries+1 attempts, sleeps 0.5*2^attempt
\* seconds before each retry, and emits one error event when the last attempt
\* raises, after which it has ended.
Thm_C8_BoundedRetry ==
    \A r \in 1..Len(runs) :
        LET st == runs[r] IN
        /\ st.attempt <= max_retries
        /\ st.raised <= max_retries + 1
        /\ st.sleeps = [n \in 1..Len(st.sleeps) |-> 500 * Pow2(n - 1)]
        /\ Len(st.sleeps) = st.attempt + (IF st.pc = "backoff" THEN 1 ELSE 0)
        /\ st.ended_by = "error" <=> st.raised = max_retries + 1
        /\ st.ended_by = "error"
              => /\ Closed(r)
                 /\ CountWhere(st.published, LAMBDA e : e = "error") = 1
                 /\ st.published[Len(st.published)] = "error"
        /\ st.ended_by \in {NoneVal, "done"}
              => CountWhere(st.published, LAMBDA e : e = "error") = 0

Wit_C8_BoundedRetry ==
    \E r \in 1..Len(runs) :
        /\ runs[r].ended_by = "error"
        /\ max_retries = 2
        /\ runs[r].sleeps = <<500, 1000>>
        /\ runs[r].raised = 3

\* C9: once a streamed run has ended, the session holds no live_response.
Cex_C9_NoLiveAfterRun ==
    \A r \in 1..Len(runs) : Closed(r) => ~sess_live.present

(***************************************************************************)
(* Claims about the cron scheduler                                         *)
(***************************************************************************)

StoredJobs == {cron_jobs[i] : i \in 1 .. Len(cron_jobs)}

\* C13: after any sequence of creations, API updates, ticks (successful or
\* failing) and manual runs, every stored job has enabled = false exactly
\* when next_run_ts = 0.
Cex_C13_DisabledIffNoNextRun ==
    \A job \in StoredJobs : (~job.enabled) <=> (job.next_run_ts = 0)

\* The half of C13 the code keeps: an enabled job has a next run time.
Aux_C13_EnabledHasNextRun ==
    \A job \in StoredJobs : job.enabled => job.next_run_ts # 0

TickOver == cron_tick.ran /\ ~cron_tick.active

DueSet == {cron_tick.due[i] : i \in 1 .. Len(cron_tick.due)}

RowsOfJob(id) == SelectSeq(cron_tick.written, LAMBDA r : r.job_id = id)

AtJobs == {job \in StoredJobs : job.schedule_type = "at"}

ExecutionsInProgress == (IF cron_tick.active THEN 1 ELSE 0) + Len(cron_reqs)

Cex_C16_Serialized == ExecutionsInProgress <= 1

\* With the scheduler the background task uses shared by the API, the lock
\* does serialize.
Aux_C16_SharedSerialized == cron_cfg.shared => ExecutionsInProgress <= 1

(***************************************************************************)
(* Claims about the schedulers' background task and the heartbeat tick     *)
(***************************************************************************)

\* C17: start() creates a task only when the scheduler is enabled and has no
\* task, so a scheduler never has two tasks alive; once stop() has returned,
\* no task of the scheduler is alive.
Thm_C17_OneTaskPerScheduler ==
    \A s \in Schedulers :
        /\ sched_live[s] <= 1
        /\ sched_last[s].op = "start_spawned" =>
               sched_last[s].enabled /\ sched_last[s].task = NoneVal
        /\ sched_last[s].op = "stop_returned" => sched_live[s] = 0

Wit_C17_OneTaskPerScheduler ==
    \E s \in Schedulers :
        /\ sched_spawned[s] = 2
        /\ sched_last[s].op = "stop_returned"
        /\ sched_last[s].task = "finished"

HbStatuses == {"skipped_outside_window", "skipped_no_prompt", "ok", "error"}

TicksOver == IF hb_tick # NoTick /\ ~hb_tick.over THEN hb_ticks - 1 ELSE hb_ticks

\* every visible character of the file stands on a line whose first visible
\* character is "#"
OnlyBlankOrComment(file) ==
    /\ file.exists
    /\ \A i \in 1 .. Len(file.text) :
           file.text[i] \notin {" ", "\n"} =>
               \E j \in 1 .. i :
                   /\ file.text[j] = "#"
                   /\ \A k \in j .. i : file.text[k] # "\n"
                   /\ \A k \in 1 .. j - 1 :
                          file.text[k] # " " => \E m \in k .. j : file.text[m] = "\n"

InWindow == _is_in_active_window(hb_window[1], hb_window[2], hb_tick.hour)

OneRowPerTick ==
    /\ Len(hb_rows) = TicksOver
    /\ \A i \in 1 .. Len(hb_rows) : hb_rows[i] \in HbStatuses

Cex_C19_AutonomousNeedsListing ==
    /\ pol_out # NoDecision
    /\ pol_in.trigger_type \in {"heartbeat", "cron"}
    /\ pol_in.tool_name \notin EnabledSet(pol_in.explicit_enabled_tools)
    => ~pol_out.allowed

\* What the code does for an unlisted tool under heartbeat and cron: it is
\* allowed exactly at L0_READ.
Aux_C19_UnlistedAllowedAtL0 ==
    /\ pol_out # NoDecision
    /\ pol_in.trigger_type \in {"heartbeat", "cron"}
    /\ pol_in.tool_name \notin EnabledSet(pol_in.explicit_enabled_tools)
    => (pol_out.allowed <=> pol_in.permission_level = 0)

Resolved == pg_out # NoResult

\* a "/"-separated component of the path is ".."
HasParentComponent(path) ==
    \E i \in 1 .. Len(path) - 1 :
        /\ path[i] = "." /\ path[i + 1] = "."
        /\ i = 1 \/ path[i - 1] = "/"
        /\ i + 1 = Len(path) \/ path[i + 2] = "/"

Rejected == ~pg_out.ok /\ pg_out.error = "InvalidPathError"

\* C20: resolve_workspace_path raises InvalidPathError for every path that
\* is empty, absolute or has a component "..", and every path it returns is
\* the canonical workspace root or lies below it.
Thm_C20_PathStaysInWorkspace ==
    Resolved =>
        /\ pg_in.candidate_path = << >> => Rejected
        /\ pg_in.candidate_path # << >> /\ Head(pg_in.candidate_path) = "/" => Rejected
        /\ HasParentComponent(pg_in.candidate_path) => Rejected
        /\ pg_out.ok =>
               /\ Len(pg_out.path) >= 1
               /\ pg_out.path[1] = <<"w">>
               /\ \A i \in 1 .. Len(pg_out.path) : pg_out.path[i] # <<".", ".">>

Wit_C20_PathStaysInWorkspace ==
    /\ Resolved
    /\ pg_in.candidate_path = <<"a", "/", ".", ".">>
    /\ pg_in.root_dir = << <<"l">> >>
    /\ Rejected

\* a symbolic link out of the workspace is caught by the final check
Aux_C20_LinkEscapeRejected ==
    Resolved /\ pg_in.link = "outside" /\ pg_in.candidate_path = <<"s">> => Rejected


----------------------------------------------------------------------------
(* Claims about the retrieval index *)

\* the digest of the memory text and chunk settings a retrieval ran on
CurrentDigest(served) ==
    _memory_digest(served.text, _sanitize_settings(served.cfg).chunk_size,
                   _sanitize_settings(served.cfg).chunk_overlap)

StoredMeta(backend, st) == IF backend = "sqlite" THEN st.meta ELSE st.json

\* two rebuild_index calls in a row, both writing the same backend; no other
\* operation in between, so the memory text and the settings are the same
RebuiltTwice == idx_last.op = "rebuild" /\ idx_last.prev_wrote = idx_last.wrote

WithoutTime(meta) ==
    IF meta # NoMeta /\ "updated_ms" \in DOMAIN meta[1]
    THEN <<[meta[1] EXCEPT !.updated_ms = 0]>> ELSE meta

----------------------------------------------------------------------------
(* Claims about the agent registry and the config layering *)

\* the handlers that end with a get_runtime call
ResolvingOps == {"get_runtime", "set_runtime_config", "set_rag_mode"}

\* the latest get_runtime call found the runtime in the cache
ResolvedAgain == ag_last.op \in ResolvingOps /\ ag_last.cached

\* C23: on a get_runtime call after the first, when a stored mtime_ns differs
\* from the file's, the cached runtime gets the effective config of the current
\* files (a new object) and its digest, and the mtimes are stored; when neither
\* differs, the same config object and digest are returned.
Thm_C23_ReloadOnMtimeChange ==
    ResolvedAgain
        => IF ag_last.changed
           THEN /\ ag_runtime[1].runtime_config
                       = load_effective_runtime_config(ag_global, ag_config)
                /\ ag_runtime[1].runtime_config_digest
                       = runtime_config_digest(
                             load_effective_runtime_config(ag_global, ag_config))
                /\ ag_runtime[1].obj # ag_last.before.runtime[1].obj
                /\ ag_runtime[1].global_config_mtime_ns = _config_mtime_ns(ag_global)
                /\ ag_runtime[1].agent_config_mtime_ns = _config_mtime_ns(ag_config)
           ELSE ag_runtime = ag_last.before.runtime

\* the agent's config.json changed (newer mtime, other content), the next
\* get_runtime call replaced the cached config by another
Wit_C23_ReloadOnMtimeChange ==
    /\ ag_last.op = "get_runtime"
    /\ ag_last.cached
    /\ ag_last.changed
    /\ ag_last.before.runtime[1].agent_config_mtime_ns # _config_mtime_ns(ag_config)
    /\ ag_runtime[1].runtime_config # ag_last.before.runtime[1].runtime_config

\* the latest get_runtime call loaded the effective config from the files
LoadedNow == ag_last.op \in ResolvingOps /\ (~ag_last.cached \/ ag_last.changed)

\* C24: after a write-back of the agent's override, a field the agent did not
\* change still inherits from the global config: whenever the effective config
\* is loaded, such a field has the value the global config gives it.
Cex_C24_UnchangedFieldInherits ==
    (ag_writeback.done /\ LoadedNow)
        => \A f \in ConfigFields \ ag_writeback.own :
               ag_runtime[1].runtime_config[f] = load_runtime_config(ag_global)[f]

\* Without a write-back the layering does inherit: the fields the agent's
\* config.json was not given follow the global config.
Aux_C24_InheritsBeforeWriteBack ==
    (~ag_writeback.done /\ LoadedNow)
        => \A f \in ConfigFields \ ag_writeback.own :
               ag_runtime[1].runtime_config[f] = load_runtime_config(ag_global)[f]

KeptOrSynced(p, old, new) ==
    \/ new[p] = old[p]
    \/ /\ p = "SKILLS_SNAPSHOT.md"
       /\ ag_base # NoFile
       /\ new[p] = ag_base
    \/ /\ p = "memory/MEMORY.md"
       /\ _is_memory_placeholder(old[p][1])
       /\ old["MEMORY.md"] # NoFile
       /\ NonBlankLines(old["MEMORY.md"][1]) # << >>
       /\ new[p] = old["MEMORY.md"]

----------------------------------------------------------------------------
(* Claims about a failed job execution *)

\* the job after the latest execution raised: one more failure, the next run
\* after the capped exponential backoff, one row more in the failures file
\* before the trim, at most failure_retention rows after it
FailureRecorded ==
    /\ rj_job.failure_count = rj_last.job.failure_count + 1
    /\ rj_job.next_run_ts
           = rj_last.now_ts + Min(rj_cfg.retry_max_seconds,
                                  rj_cfg.retry_base_seconds * Pow2(rj_job.failure_count - 1))
    /\ Len(rj_last.written) = Len(rj_last.file) + 1
    /\ SubSeq(rj_last.written, 1, Len(rj_last.file)) = rj_last.file
    /\ rj_last.written[Len(rj_last.written)].job_id = rj_job.id
    /\ rj_last.written[Len(rj_last.written)].failure_count = rj_job.failure_count
    /\ Len(rj_file) <= rj_cfg.failure_retention
    /\ rj_file = LastRows(rj_last.written, Len(rj_file))

\* C26: when a job execution raises, failure_count grows by one, next_run_ts
\* is now + min(retry_max, retry_base * 2^(failure_count - 1)), the job is
\* disabled if and only if failure_count >= max_failures, one failure row is
\* appended and the file is trimmed to failure_retention rows.
Cex_C26_DisabledIffMaxFailures ==
    rj_last.outcome = "raise"
        => /\ FailureRecorded
           /\ ~rj_job.enabled <=> rj_job.failure_count >= rj_cfg.max_failures

\* C26 (amended): as above, but the job is disabled if failure_count >=
\* max_failures and keeps its enabled flag otherwise.
Thm_C26_FailureBackoffAndDisable ==
    rj_last.outcome = "raise"
        => /\ FailureRecorded
           /\ rj_job.enabled
                  = IF rj_job.failure_count >= rj_cfg.max_failures
                    THEN FALSE ELSE rj_last.job.enabled

\* a disabled job run by run_job_now raised below max_failures, and the row
\* written pushed an older row out of the file
Wit_C26_FailureBackoffAndDisable ==
    /\ rj_last.outcome = "raise"
    /\ ~rj_last.job.enabled
    /\ rj_job.failure_count < rj_cfg.max_failures
    /\ Len(rj_last.written) > rj_cfg.failure_retention

----------------------------------------------------------------------------
(* Claims about the token source, the segment boundary and the queues *)

IsPrefixOf(a, b) == Len(a) <= Len(b) /\ SubSeq(b, 1, Len(a)) = a

\* C27: all token events of a turn carry the source the turn fixed at its
\* first delta, and the text emitted for a model step is a prefix of the text
\* the model produced in that step (no piece of it is emitted twice).
Thm_C27_OneTokenSource ==
    \A r \in 1..Len(runs) :
        /\ runs[r].token_sources \subseteq {runs[r].token_source}
        /\ IsPrefixOf(runs[r].step_emitted, runs[r].step_model)

\* the tokens of the final step were emitted from the messages stream, and
\* the update that carries the same text arrived and was not emitted again
Wit_C27_OneTokenSource ==
    \E r \in 1..Len(runs) :
        /\ runs[r].token_sources = {"messages"}
        /\ runs[r].prov = "final"
        /\ runs[r].tool_ends > 0
        /\ runs[r].step_model # << >>
        /\ runs[r].step_emitted = runs[r].step_model

\* C28: a new_response is emitted after every tool_end.
Cex_C28_BoundaryAfterEveryToolEnd ==
    \A r \in 1..Len(runs) :
        LET p == runs[r].published IN
        Closed(r) => \A i \in 1..Len(p) :
                         p[i] = "tool_end" => \E k \in (i + 1)..Len(p) : p[k] = "new_response"

\* C28 (amended): a new_response is emitted after every tool_end that a token
\* of the turn follows, before that token.
Thm_C28_BoundaryBeforeNextToken ==
    \A r \in 1..Len(runs) :
        LET p == runs[r].published IN
        \A i \in 1..Len(p) :
            (p[i] = "tool_end" /\ \E j \in (i + 1)..Len(p) : p[j] = "token")
                => \E k \in (i + 1)..Len(p) :
                       /\ p[k] = "new_response"
                       /\ \A j \in (i + 1)..k : p[j] # "token"

\* a turn with two tool calls has ended: text followed the first tool_end,
\* after a new_response; nothing followed the second
Wit_C28_BoundaryBeforeNextToken ==
    \E r \in 1..Len(runs) :
        LET p == runs[r].published IN
        /\ Closed(r)
        /\ \E i, k, j, m \in 1..Len(p) :
              /\ i < k /\ k < j /\ j < m
              /\ p[i] = "tool_end" /\ p[k] = "new_response" /\ p[j] = "token"
              /\ p[m] = "tool_end"
              /\ \A n \in (m + 1)..Len(p) : p[n] \notin {"token", "new_response"}

\* C29: when a run has completed, every queue that was registered holds the
\* sentinel None (until its client reads it), and the run is no longer the
\* one registered under the key.
Cex_C29_SentinelReachesEverySubscriber ==
    /\ \A i \in 1..Len(subs) :
           (subs[i].client = "reading" /\ runs[subs[i].run].done)
               => \E k \in 1..Len(subs[i].queue) : subs[i].queue[k] = NoneVal
    /\ \A r \in 1..Len(runs) : runs[r].done => active_run # r

\* the events published to the run since queue i was registered
PublishedSince(i) ==
    SubSeq(runs[subs[i].run].published, subs[i].since + 1,
           Len(runs[subs[i].run].published))

\* C30: a registered queue whose client does not read holds the latest
\* events published since it was registered, up to the capacity: a full queue
\* loses its oldest entry and takes the new event, whatever the state of the
\* other queues, and the run goes on.
Thm_C30_PublishDropsOldest ==
    \A i \in 1..Len(subs) :
        i \in runs[subs[i].run].subscribers
            => subs[i].queue = LastRows(PublishedSince(i), MaxQueue)

\* two queues of one run: the first has lost events, the second, registered
\* later, holds every event published since
Wit_C30_PublishDropsOldest ==
    \E i, j \in 1..Len(subs) :
        /\ subs[i].run = subs[j].run
        /\ {i, j} \subseteq runs[subs[i].run].subscribers
        /\ Len(PublishedSince(i)) > MaxQueue
        /\ subs[j].queue # << >>
        /\ Len(subs[j].queue) < MaxQueue
(***************************************************************************)
(* Claims about the failure counter and the audit lines of run_tool        *)
(***************************************************************************)

\* The failed invocations at the end of a call history: the calls after the
\* last success that reached tool.run ("E_EXEC" is a failure result,
\* "E_INTERNAL" a raised exception).
RECURSIVE FailuresSinceSuccess(_)
FailuresSinceSuccess(h) ==
    IF h = << >> THEN 0
    ELSE LET last == h[Len(h)]
             rest == SubSeq(h, 1, Len(h) - 1)
         IN  IF last.code = "OK" THEN 0
             ELSE IF last.invoked THEN FailuresSinceSuccess(rest) + 1
             ELSE FailuresSinceSuccess(rest)

\* Calls that differ in the arguments, or in the run id, have different keys.
KeysSeparate ==
    \A tool \in Tools, a1 \in ArgsSet, a2 \in ArgsSet, c1 \in Contexts, c2 \in Contexts :
        /\ a1 # a2 => FailureKey(tool, a1, c1) # FailureKey(tool, a2, c1)
        /\ (c1.run_id # NoneVal /\ c2.run_id # NoneVal /\ c1.run_id # c2.run_id)
               => FailureKey(tool, a1, c1) # FailureKey(tool, a1, c2)

\* C31: the counter of a key is the number of failed invocations (failure
\* results and raised exceptions) of that key since its last success; calls
\* denied by policy or blocked by the guard leave it as it is; a call is
\* blocked only by failures of its own key, and calls with other arguments or
\* another run id have another key.
Thm_C31_CounterPerKey ==
    /\ KeysSeparate
    /\ \A key \in FailureKeys :
           /\ GetCount(repeat_failure_counts, key) = FailuresSinceSuccess(calls[key])
           /\ \A i \in 1 .. Len(calls[key]) :
                  LET e == calls[key][i] IN
                  (e.allowed /\ ~e.invoked) =>
                      FailuresSinceSuccess(SubSeq(calls[key], 1, i - 1))
                          >= repeat_identical_failure_limit

\* one key is blocked, and a call with other arguments in the same run went
\* through to the tool afterwards
Wit_C31_CounterPerKey ==
    /\ repeat_identical_failure_limit = 1
    /\ \E tool \in Tools, a1 \in ArgsSet, a2 \in ArgsSet, c \in Contexts :
           LET k1 == FailureKey(tool, a1, c)
               k2 == FailureKey(tool, a2, c)
           IN  /\ a1 # a2
               /\ Len(calls[k1]) = 2
               /\ calls[k1][1].code = "E_INTERNAL"
               /\ calls[k1][2].allowed /\ ~calls[k1][2].invoked
               /\ Len(calls[k2]) = 1
               /\ calls[k2][1].code = "OK"
               /\ GetCount(repeat_failure_counts, k1) = 1
               /\ GetCount(repeat_failure_counts, k2) = 0
               /\ audit_tail[2].ok

\* the entry of the latest call matches the tool_end line it wrote
EndLineOf(e) == AuditEnd(e.code = "OK", IF e.invoked THEN "allowed" ELSE "denied")

\* the number of run_tool calls the histories of the keys hold
TotalCalls(keys) ==
    Cardinality(UNION {{<<k, i>> : i \in 1 .. Len(calls[k])} : k \in keys})

\* C32: every run_tool call returns a result and leaves two audit lines, a
\* tool_start and then one tool_end that tells the outcome: denied by policy,
\* blocked by the guard, success, failure result, or an exception of the tool,
\* which comes back as E_INTERNAL.
Thm_C32_StartThenOneEnd ==
    /\ TotalCalls(FailureKeys) = ncalls
    /\ ncalls > 0 =>
           /\ Len(audit_tail) = 2
           /\ audit_tail[1] = AuditStart
           /\ audit_tail[2].event = "tool_end"
           /\ \E key \in FailureKeys :
                  /\ calls[key] # << >>
                  /\ audit_tail[2] = EndLineOf(calls[key][Len(calls[key])])
    /\ \A key \in FailureKeys : \A i \in 1 .. Len(calls[key]) :
           LET e == calls[key][i] IN
           /\ e.code \in {"OK", "E_EXEC", "E_INTERNAL", "E_POLICY_DENIED"}
           /\ e.code = "E_POLICY_DENIED" <=> ~e.invoked

\* the three calls were denied by policy, blocked by the guard after a raised
\* exception, and the latest one wrote its denied tool_end line
Wit_C32_StartThenOneEnd ==
    /\ ncalls = 3
    /\ audit_tail = <<AuditStart, AuditEnd(FALSE, "denied")>>
    /\ \E k1 \in FailureKeys, k2 \in FailureKeys :
           /\ k1 # k2
           /\ Len(calls[k1]) = 2
           /\ calls[k1][1].code = "E_INTERNAL"
           /\ calls[k1][2].allowed /\ ~calls[k1][2].invoked
           /\ Len(calls[k2]) = 1
           /\ ~calls[k2][1].allowed

(***************************************************************************)
(* Claims about retried turns, the updates source and segment persistence  *)
(***************************************************************************)

\* the characters of a text other than blanks
NonBlank(text) == SelectSeq(text, LAMBDA c : c # " ")

\* the contents of the segments of a run, one after another
SegmentsText(st) ==
    Concat([i \in 1 .. Len(st.assistant_segments) |-> st.assistant_segments[i].content])

\* C35: when an attempt has failed and a later attempt ends with `done` after
\* emitting visible tokens, the content of `done` and the text of the
\* segments persisted for the run are the tokens of that last attempt.
Cex_C35_OnlySuccessfulAttempt ==
    \A r \in 1 .. Len(runs) :
        LET st == runs[r] IN
        (st.ended_by = "done" /\ st.raised > 0 /\ Strip(st.attempt_tokens) # << >>) =>
            /\ Strip(st.done_content) = Strip(st.attempt_tokens)
            /\ NonBlank(SegmentsText(st)) = NonBlank(st.attempt_tokens)

\* without a failed attempt the content of `done` is the tokens of the attempt
Aux_C35_SingleAttempt ==
    \A r \in 1 .. Len(runs) :
        LET st == runs[r] IN
        (st.ended_by = "done" /\ st.raised = 0 /\ Strip(st.attempt_tokens) # << >>) =>
            Strip(st.done_content) = Strip(st.attempt_tokens)

\* the turn of the C35 report: "x" streamed, the provider fails, "x" streamed again
Aux_C35_NoDoubledText ==
    ~ \E r \in 1 .. Len(runs) :
          /\ runs[r].ended_by = "done" /\ runs[r].raised = 1
          /\ runs[r].attempt_tokens = <<"x">>
          /\ runs[r].done_content = <<"x", "x">>
          /\ sess_messages[Len(sess_messages)].content = <<"x", "x">>

\* a model update has just been handled while the token source was `updates`,
\* and its content is new with respect to the update emitted before
NewUpdateUnderUpdates(st) ==
    /\ st.prov = "final"
    /\ st.token_source = "updates"
    /\ st.step_model # << >>
    /\ _diff_incremental(st.latest_model_snapshot, st.step_model) # << >>

\* C36: once the token source of a turn is `updates`, a model update with new
\* non-empty content is emitted as tokens, and at `done` it is part of the
\* content.
Cex_C36_LaterUpdatesEmitted ==
    \A r \in 1 .. Len(runs) :
        LET st == runs[r] IN
        NewUpdateUnderUpdates(st) =>
            /\ st.step_emitted # << >>
            /\ st.ended_by = "done" => st.step_emitted = st.step_model

\* within one attempt the update that follows the tools is the first one with
\* content, and it is emitted in full
Aux_C36_FirstUpdateEmitted ==
    \A r \in 1 .. Len(runs) :
        LET st == runs[r] IN
        (st.raised = 0 /\ st.prov = "final" /\ st.step_model # << >>
            /\ st.token_sources = {"updates"}) =>
            st.step_emitted = st.step_model

\* the messages the run of the first request added to the session
RunMessages ==
    IF sess_messages # << >> /\ sess_messages[1].content = <<"b">>
    THEN SubSeq(sess_messages, Len(PriorHistory) + 1, Len(sess_messages))
    ELSE sess_messages

\* C37: when a run is over, what it added to the session is the user message
\* followed by assistant messages with visible content whose text, one after
\* another, is the text of the token events in emission order, each piece once.
Cex_C37_SegmentsExactlyOnce ==
    \A r \in 1 .. Len(runs) :
        Closed(r) =>
            LET own == RunMessages
                texts == [i \in 1 .. Len(own) - 1 |-> own[i + 1].content]
            IN  /\ own # << >>
                /\ own[1].role = "user" /\ own[1].content = runs[r].message
                /\ \A i \in 2 .. Len(own) :
                       own[i].role = "assistant" /\ Strip(own[i].content) # << >>
                /\ Strip(runs[r].final_tokens) # << >> =>
                       NonBlank(Concat(texts)) = NonBlank(runs[r].final_tokens)

\* the user message comes first and no assistant message is blank, however
\* the run ends
Aux_C37_UserFirst ==
    \A r \in 1 .. Len(runs) :
        Closed(r) =>
            LET own == RunMessages IN
            /\ own # << >>
            /\ own[1].role = "user" /\ own[1].content = runs[r].message
            /\ \A i \in 2 .. Len(own) :
                   own[i].role = "assistant" /\ Strip(own[i].content) # << >>

----------------------------------------------------------------------------
(* The background loop under failures and under enabled = false *)

\* C38: a failing job or tick never stops a scheduler: after an exception
\* raised while loading jobs or sessions or while running the agent, the
\* background task is still running unless stop() has been called.
Cex_C38_LoopSurvivesExceptions ==
    \A s \in Schedulers :
        (LoopFacts(s) \cap {"run_once_raised", "load_raised"} # {} /\ ~sched_stop_event[s]) =>
            sched_task[s] = "running"

\* the part of C38 the code keeps: an exception of the agent run leaves the
\* task running
Aux_C38_AgentFailureKeepsLoop ==
    \A s \in Schedulers :
        ("run_once_raised" \in LoopFacts(s) /\ "load_raised" \notin LoopFacts(s)
            /\ ~sched_stop_event[s]) =>
            sched_task[s] = "running"

\* C39: while config.enabled is false the background loop invokes no agent
\* run, also when enabled was switched off after the loop was started.
Cex_C39_NoRunWhileDisabled ==
    \A s \in Schedulers : "ran_disabled" \notin LoopFacts(s)

\* the part of C39 the code keeps: a scheduler that start() never found
\* enabled runs nothing
Aux_C39_StartedEnabled ==
    \A s \in Schedulers :
        LoopFacts(s) # {} => sched_spawned[s] > 0
----------------------------------------------------------------------------
(* API changes of the jobs file during a tick *)

\* the changes requests made to job `id` during the tick, as indexes
ApiChangesOf(id) == {i \in 1 .. Len(cron_tick.api) : cron_tick.api[i].job.id = id}

\* the latest of them
LastApiChange(id) ==
    cron_tick.api[CHOOSE i \in ApiChangesOf(id) : \A j \in ApiChangesOf(id) : j <= i]

\* does the jobs file still show the change?  _run_job never touches
\* schedule_type and schedule, and never enables a job.
ChangeKept(c) ==
    LET at == IndexOfJob(cron_jobs, c.job.id, 1)
    IN  IF c.op = "delete" THEN at = 0
        ELSE /\ at # 0
             /\ cron_jobs[at].schedule_type = c.job.schedule_type
             /\ cron_jobs[at].schedule = c.job.schedule
             /\ ~c.job.enabled => ~cron_jobs[at].enabled

\* C34: a job created, updated or deleted through the API while tick_once is
\* executing a due job keeps that change after the tick has finished: the
\* final save restores no deleted job, drops no created job, reverts no update.
Cex_C34_ApiChangeSurvivesTick ==
    (~cron_tick.active /\ cron_tick.saves > 0) =>
        \A id \in JobIds :
            ApiChangesOf(id) # {} => ChangeKept(LastApiChange(id))
----------------------------------------------------------------------------
(* The files of one session under interleaved handlers *)

\* messages saved so far that are in no file: not in the active session, not
\* in the archived session, not in a file of sessions/archive
LostMessages ==
    (1 .. sm_hist.appended)
        \ (MessageIds(sm_active) \cup MessageIds(sm_archived) \cup sm_hist.compressed)

\* the messages of the file are in the order of their save_message calls
InSaveOrder(file) ==
    file.exists => \A i, j \in 1 .. Len(file.messages) :
        i < j => file.messages[i].content < file.messages[j].content

\* C33: message appends, live-response updates, title updates, compression
\* and archiving of one session are applied one after another, and none of
\* them loses a message appended by another.
Cex_C33_NoAppendLost ==
    ~sm_hist.others => (LostMessages = {} /\ InSaveOrder(sm_active))

\* what holds of C33: as long as the session has not been archived, every
\* saved message is in the session or in sessions/archive, in save order
Aux_C33_NoLossWithoutArchive ==
    (~sm_hist.others /\ sm_hist.archives = 0) =>
        (LostMessages = {} /\ InSaveOrder(sm_active))

\* C40: a session archived or deleted while a run on it is in progress is not
\* re-created as an active session by the later writes of the run: the id
\* is not both active and archived, and a deleted session stays deleted.
Cex_C40_NotRecreatedByRun ==
    sm_hist.gone # NoneVal => ~sm_active.exists
====
